---- MODULE Spec2Model ----
(***************************************************************************)
(* Routing engine of the NYC subway ETA service                            *)
(* (backend/app/core/routing.py, graph.py, cache.py, gtfs_rt.py).          *)
(*                                                                         *)
(* Stop ids are modelled as sequences of one-character strings, so that    *)
(* the string operations of the code (endswith, f"{id}N", id[:-1]) are     *)
(* computed and not assumed: "127N" is <<"1","2","7","N">>.                *)
(***************************************************************************)
EXTENDS Integers, Sequences, FiniteSets, TLC

(***************************************************************************)
(* Bounds of the model                                                     *)
(***************************************************************************)
\* largest number of rows of the station_graph table
MaxEdges == 4
\* largest number of stop_time_updates decoded in one poll cycle
MaxUpdates == 2
\* largest number of predictions held by the arrivals cache at one time
MaxCached == 2
\* largest number of rows of the station_graph table in the overlay specification
MaxOverlayEdges == 3
\* largest number of rows of the station_graph table in the reload specification
MaxReloadEdges == 2
\* most trips and most rows of transfers in a Static Store
MaxTrips == 3
MaxStoreTransfers == 2
\* most edges the module-level graph_builder may hold
MaxBuilderEdges == 80
\* most tasks that a later start() has replaced and that have not ended yet
MaxSuperseded == 1
\* latest time, in seconds, a step may reach
MaxTime == 100

(***************************************************************************)
(* Program constants                                                       *)
(***************************************************************************)
\* find_best_route(..., max_transfers: int = 3)
DefaultMaxTransfers == 3
\* eta_seconds > 3600 is dropped by the poller
MaxEtaSeconds == 3600
\* settings.redis_ttl_seconds
RedisTtlSeconds == 90
\* settings.gtfs_rt_poll_interval_seconds
PollIntervalSeconds == 45
\* settings.api_timeout_seconds
ApiTimeoutSeconds == 10

\* settings.transfer_penalty_min and settings.transfer_penalty_max
TransferPenaltyMin == 180
TransferPenaltyMax == 300
\* penalty of a PLATFORM_TRANSFER edge
PlatformTransferPenalty == 300
\* least travel time of a consecutive-stop connection, and the travel time
\* taken when a time cannot be parsed
MinTravelSeconds == 60
DefaultTravelSeconds == 120

Directions == <<"N", "S", "E", "W">>
DirectionSet == {"N", "S", "E", "W"}

(***************************************************************************)
(* Stop ids of the model                                                   *)
(***************************************************************************)
A  == <<"A">>
B  == <<"B">>
C  == <<"C">>
AN == <<"A", "N">>
AS == <<"A", "S">>
BN == <<"B", "N">>
BS == <<"B", "S">>
CN == <<"C", "N">>
ANN == <<"A", "N", "N">>
ANS == <<"A", "N", "S">>
AE == <<"A", "E">>

\* str.endswith(('N', 'S', 'E', 'W'))
EndsWithDirection(stop_id) ==
    /\ Len(stop_id) > 0
    /\ stop_id[Len(stop_id)] \in DirectionSet

\* code point order of the characters used in stop ids
CharRank(c) ==
    CASE c = "A" -> 65 [] c = "B" -> 66 [] c = "C" -> 67 [] c = "E" -> 69
      [] c = "N" -> 78 [] c = "S" -> 83 [] c = "W" -> 87 [] OTHER -> 0

\* Python's str < str
RECURSIVE StrLess(_, _)
StrLess(s, t) ==
    IF t = <<>> THEN FALSE
    ELSE IF s = <<>> THEN TRUE
    ELSE IF CharRank(Head(s)) # CharRank(Head(t))
         THEN CharRank(Head(s)) < CharRank(Head(t))
    ELSE StrLess(Tail(s), Tail(t))

RECURSIVE SumSeq(_)
SumSeq(s) == IF s = <<>> THEN 0 ELSE Head(s) + SumSeq(Tail(s))

Range(s) == {s[i] : i \in 1..Len(s)}

(***************************************************************************)
(* station_graph rows and the in-memory adjacency map                      *)
(***************************************************************************)
Ride(f, t, r, secs) ==
    [from_stop_id |-> f, to_stop_id |-> t, route_id |-> r,
     travel_time |-> secs, is_transfer |-> FALSE, transfer_penalty |-> 0]

TransferEdge(f, t, r, penalty) ==
    [from_stop_id |-> f, to_stop_id |-> t, route_id |-> r,
     travel_time |-> 0, is_transfer |-> TRUE, transfer_penalty |-> penalty]

\* connections of one source grouped by target, targets in order of first
\* appearance: the iteration order of graph[from].items() and of its lists
RECURSIVE GroupByTarget(_)
GroupByTarget(es) ==
    IF es = <<>> THEN <<>>
    ELSE LET t == es[1].to_stop_id
         IN  SelectSeq(es, LAMBDA e : e.to_stop_id = t)
             \o GroupByTarget(SelectSeq(es, LAMBDA e : e.to_stop_id # t))

\* load_graph_from_db: graph[from][to].append(conn) for every row; only the
\* from_stop_id of a row becomes a key of the outer dict
load_graph_from_db(rows) ==
    [s \in {rows[i].from_stop_id : i \in 1..Len(rows)} |->
        GroupByTarget(SelectSeq(rows, LAMBDA e : e.from_stop_id = s))]

\* self.graph.get(current_stop, {}).items(), flattened
Connections(g, stop_id) == IF stop_id \in DOMAIN g THEN g[stop_id] ELSE <<>>

(***************************************************************************)
(* StationGraphBuilder: the Static Store compiled to station_graph rows     *)
(***************************************************************************)
\* a nullable column: None, or a value
NoValue == [some |-> FALSE, value |-> 0]
Some(v) == [some |-> TRUE, value |-> v]

\* Python's truth value of a nullable integer: None and 0 are false
Truthy(x) == x.some /\ x.value # 0

\* a time column of stop_times: NULL, or a string given by its fields
\* between the colons ("08:05:30" is <<8, 5, 30>>, "08:05" is <<8, 5>>, the
\* empty string is <<>>)
NullTime == [null |-> TRUE, parts |-> <<>>]
TimeStr(parts) == [null |-> FALSE, parts |-> parts]

\* rows of the Static Store
StopTime(trip_id, stop_id, stop_sequence, arrival_time, departure_time) ==
    [trip_id |-> trip_id, stop_id |-> stop_id, stop_sequence |-> stop_sequence,
     arrival_time |-> arrival_time, departure_time |-> departure_time]
Trip(trip_id, route_id) == [trip_id |-> trip_id, route_id |-> route_id]
Transfer(from_stop_id, to_stop_id, transfer_type, min_transfer_time) ==
    [from_stop_id |-> from_stop_id, to_stop_id |-> to_stop_id,
     transfer_type |-> transfer_type, min_transfer_time |-> min_transfer_time]

\* _parse_gtfs_time: 0 for an empty string, else hours * 3600 + minutes * 60
\* + seconds of the first three fields; raises when there are fewer
_parse_gtfs_time(time_str) ==
    IF time_str.null \/ time_str.parts = <<>> THEN [raised |-> FALSE, value |-> 0]
    ELSE IF Len(time_str.parts) < 3 THEN [raised |-> TRUE, value |-> 0]
    ELSE [raised |-> FALSE,
          value |-> time_str.parts[1] * 3600 + time_str.parts[2] * 60 + time_str.parts[3]]

\* lines 85-90 with the minimum of one minute left out
TravelSecondsUnclamped(departure_time, arrival_time) ==
    LET dep_time == _parse_gtfs_time(departure_time)
        arr_time == _parse_gtfs_time(arrival_time)
    IN  IF dep_time.raised \/ arr_time.raised THEN DefaultTravelSeconds
        ELSE arr_time.value - dep_time.value

\* lines 85-90: max(60, arr_time - dep_time), 120 when a time does not parse
TravelSeconds(departure_time, arrival_time) ==
    LET dep_time == _parse_gtfs_time(departure_time)
        arr_time == _parse_gtfs_time(arrival_time)
    IN  IF dep_time.raised \/ arr_time.raised THEN DefaultTravelSeconds
        ELSE IF arr_time.value - dep_time.value > MinTravelSeconds
             THEN arr_time.value - dep_time.value
             ELSE MinTravelSeconds

\* the rows of the query of _build_consecutive_connections: SELECT DISTINCT
\* over the pairs of stop_times of one trip whose stop_sequence differ by
\* one, joined with the trip, both times NOT NULL
ConsecutiveRows(store) ==
    {[from_stop_id |-> store.stop_times[i].stop_id,
      to_stop_id |-> store.stop_times[j].stop_id,
      route_id |-> store.trips[t].route_id,
      departure_time |-> store.stop_times[i].departure_time,
      arrival_time |-> store.stop_times[j].arrival_time] :
        <<i, j, t>> \in
            {x \in (1..Len(store.stop_times)) \X (1..Len(store.stop_times))
                        \X (1..Len(store.trips)) :
                /\ store.stop_times[x[1]].trip_id = store.stop_times[x[2]].trip_id
                /\ store.stop_times[x[2]].stop_sequence
                      = store.stop_times[x[1]].stop_sequence + 1
                /\ store.trips[x[3]].trip_id = store.stop_times[x[1]].trip_id
                /\ ~store.stop_times[x[1]].departure_time.null
                /\ ~store.stop_times[x[2]].arrival_time.null}}

\* code point order of the route ids of the model
RouteRank(r) == CASE r = "1" -> 49 [] r = "2" -> 50 [] OTHER -> 0

\* ORDER BY st1.stop_id, st2.stop_id, t.route_id
ConnectionLess(k, l) ==
    IF k[1] # l[1] THEN StrLess(k[1], l[1])
    ELSE IF k[2] # l[2] THEN StrLess(k[2], l[2])
    ELSE RouteRank(k[3]) < RouteRank(l[3])

\* the keys of the dict connections, in insertion order
RECURSIVE SortedConnections(_)
SortedConnections(keys) ==
    IF keys = {} THEN <<>>
    ELSE LET k == CHOOSE x \in keys : \A y \in keys \ {x} : ConnectionLess(x, y)
         IN  <<k>> \o SortedConnections(keys \ {k})

\* sum(times) over the rows of one connection
RECURSIVE SumTimes(_)
SumTimes(rows) ==
    IF rows = {} THEN 0
    ELSE LET r == CHOOSE x \in rows : TRUE
         IN  TravelSeconds(r.departure_time, r.arrival_time) + SumTimes(rows \ {r})

\* _build_consecutive_connections: the edges appended to self.graph, one per
\* (from_stop, to_stop, route_id) with the averaged travel time
_build_consecutive_connections(store) ==
    LET rows == ConsecutiveRows(store)
        keys == SortedConnections({<<r.from_stop_id, r.to_stop_id, r.route_id>> : r \in rows})
        times(k) == {r \in rows : <<r.from_stop_id, r.to_stop_id, r.route_id>> = k}
    IN  [n \in 1..Len(keys) |->
            Ride(keys[n][1], keys[n][2], keys[n][3],
                 SumTimes(times(keys[n])) \div Cardinality(times(keys[n])))]

\* _get_directional_variations: the id itself when it ends in a direction,
\* else the id with each of N, S, E, W appended, whether or not such a stop
\* exists
_get_directional_variations(base_stop_id) ==
    IF EndsWithDirection(base_stop_id) THEN <<base_stop_id>>
    ELSE [d \in 1..Len(Directions) |-> Append(base_stop_id, Directions[d])]

\* lines 124-134: the penalty of a declared transfer
TransferTime(transfer) ==
    IF Truthy(transfer.min_transfer_time) THEN transfer.min_transfer_time.value
    ELSE IF transfer.transfer_type \in {0, 1} THEN TransferPenaltyMin
    ELSE TransferPenaltyMax

\* lines 141-149: a TRANSFER edge for every pair of variations
TransferPairs(transfer) ==
    LET from_variations == _get_directional_variations(transfer.from_stop_id)
        to_variations == _get_directional_variations(transfer.to_stop_id)
        n == Len(to_variations)
    IN  [p \in 1..(Len(from_variations) * n) |->
            TransferEdge(from_variations[((p - 1) \div n) + 1],
                         to_variations[((p - 1) % n) + 1],
                         "TRANSFER", TransferTime(transfer))]

\* lines 118-149: the edges appended for the rows of transfers, in table order
RECURSIVE ExplicitTransfers(_)
ExplicitTransfers(transfers) ==
    IF transfers = <<>> THEN <<>>
    ELSE (IF \/ Head(transfers).from_stop_id = Head(transfers).to_stop_id
             \/ Head(transfers).transfer_type = 3
          THEN <<>>
          ELSE TransferPairs(Head(transfers)))
         \o ExplicitTransfers(Tail(transfers))

\* the keys of self.graph: the stops some appended edge starts from
Sources(appended) == {appended[i].from_stop_id : i \in 1..Len(appended)}

\* lines 174-194 for one base station id
PlatformTransfers(base_id, sources) ==
    LET platforms == SelectSeq([d \in 1..Len(Directions) |-> Append(base_id, Directions[d])],
                               LAMBDA platform_id : platform_id \in sources)
        n == Len(platforms)
        pairs == SelectSeq([p \in 1..(n * n) |-> <<((p - 1) \div n) + 1, ((p - 1) % n) + 1>>],
                           LAMBDA ij : ij[1] # ij[2])
    IN  IF n > 1
        THEN [p \in 1..Len(pairs) |->
                TransferEdge(platforms[pairs[p][1]], platforms[pairs[p][2]],
                             "PLATFORM_TRANSFER", PlatformTransferPenalty)]
        ELSE <<>>

\* _build_intra_station_transfers over the stop ids of stops, in table
\* order; the edges it appends start from platforms that are keys already,
\* so the keys of self.graph are those at its start
RECURSIVE _build_intra_station_transfers(_, _)
_build_intra_station_transfers(stops, sources) ==
    IF stops = <<>> THEN <<>>
    ELSE PlatformTransfers(Head(stops), sources)
         \o _build_intra_station_transfers(Tail(stops), sources)

\* _build_transfer_connections: the edges appended to self.graph
_build_transfer_connections(store, appended) ==
    LET explicit == ExplicitTransfers(store.transfers)
    IN  explicit \o _build_intra_station_transfers(store.stops,
                                                   Sources(appended \o explicit))

\* steps 1 and 2 of build_graph: self.graph after them, as the sequence of
\* the edges appended to it since the builder was constructed
build_graph(appended, store) ==
    LET consecutive == appended \o _build_consecutive_connections(store)
    IN  consecutive \o _build_transfer_connections(store, consecutive)

\* "for from_stop, destinations in self.graph.items(): for to_stop,
\* connections in destinations.items(): for conn in connections": the edges
\* grouped by source and target, in order of first appearance
RECURSIVE GraphItems(_)
GraphItems(appended) ==
    IF appended = <<>> THEN <<>>
    ELSE LET f == appended[1].from_stop_id
         IN  GroupByTarget(SelectSeq(appended, LAMBDA e : e.from_stop_id = f))
             \o GraphItems(SelectSeq(appended, LAMBDA e : e.from_stop_id # f))

\* the primary key of station_graph
EdgeKey(e) == <<e.from_stop_id, e.to_stop_id, e.route_id>>

HasDuplicateKey(edges) ==
    \E i, j \in 1..Len(edges) : i # j /\ EdgeKey(edges[i]) = EdgeKey(edges[j])

\* the first rows of edges that do not repeat a key
RECURSIVE InsertedBeforeError(_, _)
InsertedBeforeError(edges, n) ==
    IF n > Len(edges) \/ \E i \in 1..(n - 1) : EdgeKey(edges[i]) = EdgeKey(edges[n])
    THEN SubSeq(edges, 1, n - 1)
    ELSE InsertedBeforeError(edges, n + 1)

\* _save_graph_to_db with every statement committed on its own
SaveGraphAutocommitted(rows, edges, db_error) ==
    IF db_error THEN [raised |-> TRUE, rows |-> <<>>]
    ELSE IF HasDuplicateKey(edges)
    THEN [raised |-> TRUE, rows |-> InsertedBeforeError(edges, 1)]
    ELSE [raised |-> FALSE, rows |-> edges]

\* _save_graph_to_db: the rows of station_graph after the call. The DELETE
\* and the inserts belong to one transaction that db.commit() ends; a flush
\* raises when two edges have the same primary key, and db_error stands for
\* any other error of the database; a raise leaves the transaction
\* uncommitted, and the caller's "with SessionLocal() as db" rolls it back
_save_graph_to_db(rows, edges, db_error) ==
    IF db_error \/ HasDuplicateKey(edges)
    THEN [raised |-> TRUE, rows |-> rows]
    ELSE [raised |-> FALSE, rows |-> edges]

(***************************************************************************)
(* RoutePlanner._dijkstra                                                  *)
(***************************************************************************)
NoPath == [found |-> FALSE, path |-> <<>>]
FoundPath(p) == [found |-> TRUE, path |-> p]

\* heapq order of (cost, stop, transfers, path); two entries of the queue
\* never agree on (cost, stop, transfers), because an entry is pushed only
\* when it strictly improves best_costs of its state
EntryLess(e, f) ==
    \/ e.cost < f.cost
    \/ e.cost = f.cost /\ StrLess(e.stop, f.stop)
    \/ e.cost = f.cost /\ e.stop = f.stop /\ e.transfers < f.transfers

\* a queue that hands out the entry of the least stop id, whatever its cost
PopLeastStop(pq) ==
    CHOOSE e \in pq : \A f \in pq \ {e} :
        \/ StrLess(e.stop, f.stop)
        \/ e.stop = f.stop /\ e.transfers < f.transfers
        \/ e.stop = f.stop /\ e.transfers = f.transfers /\ e.cost < f.cost

HeapPop(pq) == CHOOSE e \in pq : \A f \in pq \ {e} : EntryLess(e, f)

\* the "for conn in connections" loop body, over the connections in order;
\* st = [pq, best_costs]
RECURSIVE Relax(_, _, _, _)
Relax(conns, cur, max_transfers, st) ==
    IF conns = <<>> THEN st
    ELSE LET conn == Head(conns)
             next_transfers == cur.transfers + (IF conn.is_transfer THEN 1 ELSE 0)
             new_cost == cur.cost + conn.travel_time + conn.transfer_penalty
             new_state == <<conn.to_stop_id, next_transfers>>
             improves == \/ new_state \notin DOMAIN st.best_costs
                         \/ new_cost < st.best_costs[new_state]
             new_path == Append(cur.path,
                                [from_stop |-> cur.stop,
                                 to_stop |-> conn.to_stop_id,
                                 route_id |-> conn.route_id,
                                 travel_time |-> conn.travel_time,
                                 is_transfer |-> conn.is_transfer])
         IN  IF next_transfers > max_transfers
             THEN Relax(Tail(conns), cur, max_transfers, st)
             ELSE IF improves
             THEN Relax(Tail(conns), cur, max_transfers,
                        [pq |-> st.pq \cup {[cost |-> new_cost,
                                             stop |-> conn.to_stop_id,
                                             transfers |-> next_transfers,
                                             path |-> new_path]},
                         best_costs |->
                            [s \in DOMAIN st.best_costs \cup {new_state} |->
                                IF s = new_state THEN new_cost
                                ELSE st.best_costs[s]]])
             ELSE Relax(Tail(conns), cur, max_transfers, st)

\* the "while pq" loop
RECURSIVE DijkstraLoop(_, _, _, _, _)
DijkstraLoop(g, end, max_transfers, st, visited) ==
    IF st.pq = {} THEN NoPath
    ELSE LET cur == HeapPop(st.pq)
             rest == [st EXCEPT !.pq = st.pq \ {cur}]
             state == <<cur.stop, cur.transfers>>
         IN  IF state \in visited
             THEN DijkstraLoop(g, end, max_transfers, rest, visited)
             ELSE IF cur.stop = end
             THEN FoundPath(cur.path)
             ELSE IF cur.transfers > max_transfers
             THEN DijkstraLoop(g, end, max_transfers, rest, visited \cup {state})
             ELSE DijkstraLoop(g, end, max_transfers,
                               Relax(Connections(g, cur.stop), cur, max_transfers, rest),
                               visited \cup {state})

\* _dijkstra letting one transfer more than max_transfers through
DijkstraOneMoreTransfer(g, start, end, max_transfers) ==
    DijkstraLoop(g, end, max_transfers + 1,
                 [pq |-> {[cost |-> 0, stop |-> start, transfers |-> 0, path |-> <<>>]},
                  best_costs |-> << >>],
                 {})

_dijkstra(g, start, end, max_transfers) ==
    DijkstraLoop(g, end, max_transfers,
                 [pq |-> {[cost |-> 0, stop |-> start, transfers |-> 0, path |-> <<>>]},
                  best_costs |-> << >>],
                 {})

(***************************************************************************)
(* ArrivalsCache (Redis)                                                   *)
(***************************************************************************)
Arrival(r, eta) == [route_id |-> r, eta_s |-> eta]

\* _make_key: f"arrivals:{stop_id}:{direction}"
_make_key(stop_id, direction) == <<stop_id, direction>>

NoArrivals == [present |-> FALSE, arrivals |-> <<>>]

\* the JSON payload of an arrivals key: arrivals, as_of_ts, cached_at
CacheEntry(arrivals, as_of_ts, cached_at) ==
    [arrivals |-> arrivals, as_of_ts |-> as_of_ts, cached_at |-> cached_at]

\* get_arrivals: None when the key is absent (never set, or expired) and
\* when the Redis read raises; the "arrivals" of the stored payload otherwise
get_arrivals(store, ok, stop_id, direction) ==
    IF ~ok THEN NoArrivals
    ELSE IF _make_key(stop_id, direction) \notin DOMAIN store THEN NoArrivals
    ELSE [present |-> TRUE, arrivals |-> store[_make_key(stop_id, direction)].arrivals]

\* set_arrivals appending to the list the key holds
SetArrivalsMerging(store, ok, stop_id, direction, arrivals, timestamp, cached_at) ==
    IF ~ok THEN store
    ELSE [k \in DOMAIN store \cup {_make_key(stop_id, direction)} |->
            IF k # _make_key(stop_id, direction) THEN store[k]
            ELSE IF k \in DOMAIN store
            THEN CacheEntry(store[k].arrivals \o arrivals, timestamp, cached_at)
            ELSE CacheEntry(arrivals, timestamp, cached_at)]

\* set_arrivals: setex(key, ttl, data) at the time cached_at, data carrying
\* the arrivals and as_of_ts = timestamp; nothing is stored when Redis raises
set_arrivals(store, ok, stop_id, direction, arrivals, timestamp, cached_at) ==
    IF ~ok THEN store
    ELSE [k \in DOMAIN store \cup {_make_key(stop_id, direction)} |->
            IF k = _make_key(stop_id, direction)
            THEN CacheEntry(arrivals, timestamp, cached_at)
            ELSE store[k]]

\* the keys Redis still holds at time t: setex(key, ttl, data) at cached_at
\* makes the key expire at cached_at + ttl
Unexpired(store, t) ==
    [k \in {x \in DOMAIN store : store[x].cached_at + RedisTtlSeconds > t} |-> store[k]]

\* the key feed:last_update, not set yet
NoFeedUpdate == [present |-> FALSE, timestamp |-> 0]

\* set_feed_update writing the key only when it is not set yet
SetFeedUpdateIfAbsent(last_update, ok, timestamp) ==
    IF ~ok \/ last_update.present THEN last_update
    ELSE [present |-> TRUE, timestamp |-> timestamp]

\* set_feed_update: set("feed:last_update", timestamp), no TTL
set_feed_update(last_update, ok, timestamp) ==
    IF ~ok THEN last_update ELSE [present |-> TRUE, timestamp |-> timestamp]

\* get_feed_age at the time t: the seconds since the timestamp of the key,
\* None when the key is not set or Redis raises
get_feed_age(last_update, ok, t) ==
    IF ~ok \/ ~last_update.present THEN NoValue ELSE Some(t - last_update.timestamp)

(***************************************************************************)
(* GTFSRealtimeFetcher: stop_time_updates to cache entries                 *)
(***************************************************************************)
NoDirection == ""

_infer_direction_from_stop_id(stop_id) ==
    IF Len(stop_id) > 0 /\ stop_id[Len(stop_id)] = "N" THEN "N"
    ELSE IF Len(stop_id) > 0 /\ stop_id[Len(stop_id)] = "S" THEN "S"
    ELSE NoDirection

_clean_stop_id(stop_id) ==
    IF Len(stop_id) > 0 /\ stop_id[Len(stop_id)] \in DirectionSet
    THEN SubSeq(stop_id, 1, Len(stop_id) - 1)
    ELSE stop_id

\* the tests of lines 128 and 132 with both limits excluded
EtaStrictlyInside(eta_seconds) == eta_seconds > 0 /\ eta_seconds < MaxEtaSeconds

\* lines 128-133: an eta is skipped when negative or above 3600
EtaKept(eta_seconds) == ~(eta_seconds < 0 \/ eta_seconds > MaxEtaSeconds)

\* a stop_time_update as a feed carries it: arrival and departure are the
\* predicted times, epoch seconds, of the fields the update has
StopTimeUpdate(stop_id, route_id, arrival, departure) ==
    [stop_id |-> stop_id, route_id |-> route_id, arrival |-> arrival, departure |-> departure]

\* lines 113-125: the arrival time when the update has an arrival, else the
\* departure time when it has a departure, minus current_time, which
\* _process_trip_updates reads from the clock when it is called; None when
\* the update has neither
EtaSeconds(stop_time_update, current_time) ==
    IF stop_time_update.arrival.some
    THEN Some(stop_time_update.arrival.value - current_time)
    ELSE IF stop_time_update.departure.some
    THEN Some(stop_time_update.departure.value - current_time)
    ELSE NoValue

\* the stop_time_updates of a feed with the eta_seconds of lines 113-125,
\* without those whose eta_seconds is None (line 128)
RECURSIVE WithEtaSeconds(_, _)
WithEtaSeconds(stop_time_updates, current_time) ==
    IF stop_time_updates = <<>> THEN <<>>
    ELSE LET u == Head(stop_time_updates)
             eta_seconds == EtaSeconds(u, current_time)
             rest == WithEtaSeconds(Tail(stop_time_updates), current_time)
         IN  IF eta_seconds.some
             THEN <<[stop_id |-> u.stop_id, route_id |-> u.route_id,
                     eta_seconds |-> eta_seconds.value]>> \o rest
             ELSE rest

\* _process_trip_updates over the stop_time_updates of a feed, in feed order;
\* an update is [stop_id, route_id, eta_seconds], eta_seconds being the
\* predicted time minus the current time. The result is the dict
\* arrivals_by_stop as a sequence of [key, arrivals] in insertion order.
RECURSIVE _process_trip_updates(_, _)
_process_trip_updates(updates, arrivals_by_stop) ==
    IF updates = <<>> THEN arrivals_by_stop
    ELSE LET u == Head(updates)
             direction == _infer_direction_from_stop_id(u.stop_id)
             key == <<_clean_stop_id(u.stop_id), direction>>
             arrival == Arrival(u.route_id, u.eta_seconds)
             known == \E i \in 1..Len(arrivals_by_stop) : arrivals_by_stop[i].key = key
         IN  IF direction = NoDirection
             THEN _process_trip_updates(Tail(updates), arrivals_by_stop)
             ELSE IF ~EtaKept(u.eta_seconds)
             THEN _process_trip_updates(Tail(updates), arrivals_by_stop)
             ELSE IF known
             THEN _process_trip_updates(Tail(updates),
                    [i \in 1..Len(arrivals_by_stop) |->
                        IF arrivals_by_stop[i].key = key
                        THEN [arrivals_by_stop[i] EXCEPT !.arrivals = Append(@, arrival)]
                        ELSE arrivals_by_stop[i]])
             ELSE _process_trip_updates(Tail(updates),
                    Append(arrivals_by_stop, [key |-> key, arrivals |-> <<arrival>>]))

\* what one feed URL yields in a cycle: ok says whether the request and the
\* decoding succeed, updates are the stop_time_updates of the feed (for a
\* failing feed: those decoded before the failure)
Fetched(updates) == [ok |-> TRUE, updates |-> updates]
FeedFailed(updates) == [ok |-> FALSE, updates |-> updates]

NoFeedResult == [some |-> FALSE, arrivals |-> <<>>]

\* _fetch_single_feed handing on what it processed before the failure
FetchSingleFeedKeepingPartial(feed) ==
    [some |-> TRUE, arrivals |-> _process_trip_updates(feed.updates, <<>>)]

\* _fetch_single_feed: the processed arrivals, None when an exception is caught
_fetch_single_feed(feed) ==
    IF feed.ok
    THEN [some |-> TRUE, arrivals |-> _process_trip_updates(feed.updates, <<>>)]
    ELSE NoFeedResult

\* "for (stop_id, direction), arrivals in result.items()": extend the list
\* of a known key, insert a new key at the end
RECURSIVE MergeArrivals(_, _)
MergeArrivals(all_arrivals, result) ==
    IF result = <<>> THEN all_arrivals
    ELSE LET key == Head(result).key
             known == \E i \in 1..Len(all_arrivals) : all_arrivals[i].key = key
         IN  IF known
             THEN MergeArrivals([i \in 1..Len(all_arrivals) |->
                                    IF all_arrivals[i].key = key
                                    THEN [all_arrivals[i] EXCEPT
                                            !.arrivals = @ \o Head(result).arrivals]
                                    ELSE all_arrivals[i]],
                                Tail(result))
             ELSE MergeArrivals(Append(all_arrivals, Head(result)), Tail(result))

\* fetch_all_feeds over the results of the feed URLs, in the order of
\* feed_urls; a feed that failed (None) or emitted nothing is skipped
RECURSIVE fetch_all_feeds(_, _)
fetch_all_feeds(feeds, all_arrivals) ==
    IF feeds = <<>> THEN all_arrivals
    ELSE LET result == _fetch_single_feed(Head(feeds))
         IN  IF ~result.some \/ result.arrivals = <<>>
             THEN fetch_all_feeds(Tail(feeds), all_arrivals)
             ELSE fetch_all_feeds(Tail(feeds), MergeArrivals(all_arrivals, result.arrivals))

\* the loop of update_cache with as_of_ts taken at the time of each put
RECURSIVE UpdateCacheStampedAtPut(_, _, _, _, _)
UpdateCacheStampedAtPut(store, ok, groups, start_time, cached_at) ==
    IF groups = <<>> THEN store
    ELSE UpdateCacheStampedAtPut(
            set_arrivals(store, ok, Head(groups).key[1], Head(groups).key[2],
                         Head(groups).arrivals, cached_at, cached_at),
            ok, Tail(groups), start_time, cached_at)

\* the loop of update_cache: one set_arrivals per (stop_id, direction) group
\* of all_arrivals, with timestamp = start_time; cached_at is the time of
\* the puts
RECURSIVE update_cache(_, _, _, _, _)
update_cache(store, ok, groups, start_time, cached_at) ==
    IF groups = <<>> THEN store
    ELSE update_cache(set_arrivals(store, ok, Head(groups).key[1],
                                   Head(groups).key[2], Head(groups).arrivals,
                                   start_time, cached_at),
                      ok, Tail(groups), start_time, cached_at)

(***************************************************************************)
(* RoutePlanner                                                            *)
(***************************************************************************)
\* _get_directional_stop_ids; "in self.graph" tests the keys of the outer dict
_get_directional_stop_ids(g, base_stop_id) ==
    IF EndsWithDirection(base_stop_id)
    THEN IF base_stop_id \in DOMAIN g THEN <<base_stop_id>> ELSE <<>>
    ELSE SelectSeq([i \in 1..Len(Directions) |-> Append(base_stop_id, Directions[i])],
                   LAMBDA stop_id : stop_id \in DOMAIN g)

NoLive == [live |-> FALSE, eta_s |-> 0]

MinEta(arrivals) ==
    CHOOSE m \in {arrivals[i].eta_s : i \in 1..Len(arrivals)} :
        \A i \in 1..Len(arrivals) : m <= arrivals[i].eta_s

\* _get_live_boarding_time: the directions are tried in the order N, S, E, W
\* and the first bucket holding an arrival of the route decides
RECURSIVE LiveBoardingFrom(_, _, _, _, _)
LiveBoardingFrom(store, ok, stop_id, route_id, d) ==
    IF d > Len(Directions) THEN NoLive
    ELSE LET got == get_arrivals(store, ok, stop_id, Directions[d])
             route_arrivals == SelectSeq(got.arrivals, LAMBDA a : a.route_id = route_id)
         IN  IF ~got.present \/ got.arrivals = <<>>
             THEN LiveBoardingFrom(store, ok, stop_id, route_id, d + 1)
             ELSE IF route_arrivals # <<>>
             THEN [live |-> TRUE, eta_s |-> MinEta(route_arrivals)]
             ELSE LiveBoardingFrom(store, ok, stop_id, route_id, d + 1)

\* _get_live_boarding_time answering 0 seconds where it has no live data
LiveBoardingOrZero(store, ok, stop_id, route_id) ==
    [live |-> TRUE, eta_s |-> LiveBoardingFrom(store, ok, stop_id, route_id, 1).eta_s]

_get_live_boarding_time(store, ok, stop_id, route_id) ==
    LiveBoardingFrom(store, ok, stop_id, route_id, 1)

\* the loop of _path_to_legs from path index i on (i is 1-based here, so the
\* code's "i == 0" is i = 1 and its "i > 0" is i > 1)
RECURSIVE LegsFrom(_, _, _, _)
LegsFrom(path, i, store, ok) ==
    IF i > Len(path) THEN <<>>
    ELSE IF path[i].is_transfer THEN LegsFrom(path, i + 1, store, ok)
    ELSE LET live == IF i = 1
                     THEN _get_live_boarding_time(store, ok, path[i].from_stop,
                                                  path[i].route_id)
                     ELSE NoLive
             leg == [route_id |-> path[i].route_id,
                     from_stop_id |-> path[i].from_stop,
                     to_stop_id |-> path[i].to_stop,
                     board_in_s |-> IF live.live THEN live.eta_s
                                    ELSE path[i].travel_time,
                     run_s |-> path[i].travel_time,
                     transfer |-> (i > 1)]
         IN  <<leg>> \o LegsFrom(path, i + 1, store, ok)

\* _path_to_legs without the "if is_transfer: continue" of its loop
PathToLegsKeepingTransfers(path, store, ok) ==
    IF path = <<>> THEN [some |-> FALSE, legs |-> <<>>]
    ELSE [some |-> TRUE,
          legs |-> [i \in 1..Len(path) |->
                      [route_id |-> path[i].route_id,
                       from_stop_id |-> path[i].from_stop,
                       to_stop_id |-> path[i].to_stop,
                       board_in_s |-> path[i].travel_time,
                       run_s |-> path[i].travel_time,
                       transfer |-> (i > 1)]]]

\* _path_to_legs: None for an empty path, the list of legs otherwise
_path_to_legs(path, store, ok) ==
    IF path = <<>> THEN [some |-> FALSE, legs |-> <<>>]
    ELSE [some |-> TRUE, legs |-> LegsFrom(path, 1, store, ok)]

\* total_cost summing edge[4], the transfer flag, in place of edge[3]
TotalCostOfFlags(path) ==
    SumSeq([i \in 1..Len(path) |-> IF path[i].is_transfer THEN 1 ELSE 0])

\* sum(edge[3] for edge in path)
TotalCost(path) == SumSeq([i \in 1..Len(path) |-> path[i].travel_time])

\* the two nested loops of find_best_route, flattened: pairs is the sequence
\* of (from_dir, to_dir) still to try, best the path retained so far
RECURSIVE TryPairs(_, _, _, _)
TryPairs(g, pairs, max_transfers, best) ==
    IF pairs = <<>> THEN best
    ELSE LET from_dir == Head(pairs)[1]
             to_dir == Head(pairs)[2]
             res == _dijkstra(g, from_dir, to_dir, max_transfers)
         IN  IF from_dir = to_dir
             THEN TryPairs(g, Tail(pairs), max_transfers, best)
             ELSE IF res.found /\ res.path # <<>>
                     /\ (~best.found \/ TotalCost(res.path) < TotalCost(best.path))
             THEN TryPairs(g, Tail(pairs), max_transfers, FoundPath(res.path))
             ELSE TryPairs(g, Tail(pairs), max_transfers, best)

\* for from_dir in from_options: for to_dir in to_options
PairsOf(from_options, to_options) ==
    [k \in 1..(Len(from_options) * Len(to_options)) |->
        <<from_options[((k - 1) \div Len(to_options)) + 1],
          to_options[((k - 1) % Len(to_options)) + 1]>>]

BestRoute(g, from_stop_id, to_stop_id, max_transfers) ==
    TryPairs(g, PairsOf(_get_directional_stop_ids(g, from_stop_id),
                        _get_directional_stop_ids(g, to_stop_id)),
             max_transfers, NoPath)

NoneResponse == [kind |-> "none", legs |-> <<>>, transfers |-> 0, total_eta_s |-> 0]

\* RouteResponse with total_eta_s computed from the scheduled times only
RouteResponseScheduled(legs) ==
    [kind |-> "route",
     legs |-> legs,
     transfers |-> Cardinality({i \in 1..Len(legs) : legs[i].transfer}),
     total_eta_s |-> SumSeq([i \in 1..Len(legs) |-> legs[i].run_s + legs[i].run_s])]

RouteResponse(legs) ==
    [kind |-> "route",
     legs |-> legs,
     transfers |-> Cardinality({i \in 1..Len(legs) : legs[i].transfer}),
     total_eta_s |-> SumSeq([i \in 1..Len(legs) |-> legs[i].board_in_s + legs[i].run_s])]

\* find_best_route on the loaded graph g
find_best_route(g, store, ok, from_stop_id, to_stop_id, max_transfers) ==
    LET from_options == _get_directional_stop_ids(g, from_stop_id)
        to_options == _get_directional_stop_ids(g, to_stop_id)
        best_route_ == BestRoute(g, from_stop_id, to_stop_id, max_transfers)
        legs == _path_to_legs(best_route_.path, store, ok)
    IN  IF from_options = <<>> THEN NoneResponse
        ELSE IF to_options = <<>> THEN NoneResponse
        ELSE IF from_stop_id = to_stop_id THEN RouteResponse(<<>>)
        ELSE IF ~best_route_.found THEN NoneResponse
        ELSE IF ~legs.some \/ legs.legs = <<>> THEN NoneResponse
        ELSE RouteResponse(legs.legs)

(***************************************************************************)
(* State                                                                   *)
(***************************************************************************)
VARIABLES
    static_store,   \* the tables stops, trips, stop_times and transfers
    graph_builder,  \* self.graph of the module-level graph_builder, as the
                    \* sequence of the edges appended to it
    station_graph,  \* rows of the station_graph table, in table order
    graph,          \* RoutePlanner.graph: from_stop_id -> connections
    graph_loaded,   \* RoutePlanner.graph_loaded
    redis,          \* arrivals:<stop_id>:<direction> -> payload (CacheEntry)
    feed_last_update, \* the Redis key feed:last_update
    now,            \* the clock, in seconds
    poller,         \* the GTFSRealtimePoller, its task and the cycle it ran last
    request,        \* the call being answered, Idle between calls
    best_route,     \* find_best_route's best_route when it returns
    path,           \* the value returned by a direct _dijkstra call
    search,         \* pq, best_costs and visited of a _dijkstra call followed
                    \* iteration by iteration
    response        \* the value returned by find_best_route

vars == <<static_store, graph_builder,
          station_graph, graph, graph_loaded, redis, feed_last_update, now, poller,
          request, best_route, path, search, response>>

Idle == [op |-> "idle", from_stop_id |-> <<>>, to_stop_id |-> <<>>,
         max_transfers |-> 0, cache_ok |-> TRUE]

\* GTFSRealtimePoller.__init__: is_running False, no task. pc is the
\* position of the task running _poll_loop: "none" (no task), "ready"
\* (before the test of "while self.is_running"), "fetching" (suspended in
\* the gather of fetch_all_feeds), "sleeping" (suspended in the sleep after
\* a cycle) or "done"; must_cancel is the cancellation requested of the
\* task and not yet delivered, stopping says that a call of stop() awaits
\* the task, client_closed that fetcher.close() has run; start_time, feeds
\* and cache_ok describe the cycle begun last
NotStarted ==
    [is_running |-> FALSE, pc |-> "none", must_cancel |-> FALSE, stopping |-> FALSE,
     client_closed |-> FALSE, start_time |-> 0, feeds |-> <<>>, cache_ok |-> TRUE,
     superseded |-> << >>]

\* no _dijkstra call is being followed
NoSearch == [running |-> FALSE, pq |-> {}, best_costs |-> << >>, visited |-> {},
             expanded |-> << >>]

(***************************************************************************)
(* Inputs                                                                  *)
(***************************************************************************)
\* rows a graph build can commit, in the order the builder inserts them
\* (grouped by source); a transfer row has travel_time 0 and a penalty > 0
EdgeUniverse ==
    << Ride(AN, BN, "1", 300),
       TransferEdge(AN, AS, "PLATFORM_TRANSFER", 300),
       Ride(AS, BN, "2", 240),
       TransferEdge(AS, CN, "TRANSFER", 180),
       TransferEdge(AS, BN, "TRANSFER", 300),
       Ride(BN, CN, "2", 240),
       TransferEdge(BN, BN, "TRANSFER", 180),
       TransferEdge(BN, BS, "PLATFORM_TRANSFER", 300),
       Ride(BS, CN, "1", 300),
       Ride(CN, BN, "2", 240) >>

\* the rows among which the tables of the overlay specification are drawn
OverlayRows == {1, 2, 3, 6, 10}
\* the rows among which the graph builder's commits are drawn in the reload
\* specification
ReloadRows == {1, 3, 6}

RECURSIVE PickRows(_, _, _)
PickRows(rows, idx, i) ==
    IF i > Len(rows) THEN <<>>
    ELSE IF i \in idx THEN <<rows[i]>> \o PickRows(rows, idx, i + 1)
    ELSE PickRows(rows, idx, i + 1)

EdgeTables(indices, n) ==
    {PickRows(EdgeUniverse, idx, 1) : idx \in {x \in SUBSET indices : Cardinality(x) <= n}}

\* rows of the graphs on which a search is followed iteration by iteration:
\* a stop reached dearly first and cheaply later, a cycle closed by a ride of
\* zero seconds, and transfers from a stop to itself, one of them without cost
SearchEdgeUniverse ==
    << Ride(AN, CN, "1", 300),
       Ride(AN, BN, "1", 60),
       Ride(BN, CN, "1", 60),
       Ride(CN, AN, "1", 0),
       TransferEdge(BN, BN, "TRANSFER", 0),
       TransferEdge(AN, AN, "TRANSFER", 180) >>

SearchTables ==
    {PickRows(SearchEdgeUniverse, idx, 1) :
        idx \in {x \in SUBSET (1..Len(SearchEdgeUniverse)) : Cardinality(x) <= MaxEdges}}

\* the stops table: parent stations and their platforms
StopsTable == <<A, AN, AS, B, BN, BS, C, CN>>

\* trips a Static Store can hold, each with its stop_times
TripUniverse ==
    << [trip |-> Trip("t1", "1"),
        stop_times |->
          <<StopTime("t1", AN, 1, TimeStr(<<8, 0, 0>>), TimeStr(<<8, 0, 0>>)),
            StopTime("t1", BN, 2, TimeStr(<<8, 5, 0>>), TimeStr(<<8, 5, 0>>)),
            StopTime("t1", CN, 3, TimeStr(<<8, 9, 0>>), TimeStr(<<8, 9, 0>>))>>],
       [trip |-> Trip("t2", "1"),
        stop_times |->
          <<StopTime("t2", AN, 1, TimeStr(<<9, 0, 0>>), TimeStr(<<9, 0, 0>>)),
            StopTime("t2", BN, 2, TimeStr(<<9, 0, 30>>), TimeStr(<<9, 0, 30>>))>>],
       [trip |-> Trip("t3", "2"),
        stop_times |->
          <<StopTime("t3", AS, 1, TimeStr(<<23, 59, 30>>), TimeStr(<<23, 59, 30>>)),
            StopTime("t3", BN, 2, TimeStr(<<25, 0, 30>>), TimeStr(<<25, 0, 30>>))>>],
       [trip |-> Trip("t4", "2"),
        stop_times |->
          <<StopTime("t4", BS, 1, TimeStr(<<8, 0, 0>>), TimeStr(<<8, 0, 0>>)),
            StopTime("t4", CN, 2, TimeStr(<<8, 4>>), TimeStr(<<8, 4>>))>>],
       [trip |-> Trip("t5", "1"),
        stop_times |->
          <<StopTime("t5", AN, 1, TimeStr(<<8, 0, 0>>), TimeStr(<<8, 0, 0>>)),
            StopTime("t5", BN, 2, TimeStr(<<8, 5, 0>>), TimeStr(<<8, 5, 0>>))>>],
       [trip |-> Trip("t6", "2"),
        stop_times |->
          <<StopTime("t6", AS, 1, TimeStr(<<10, 0, 0>>), TimeStr(<<10, 0, 0>>)),
            StopTime("t6", BS, 3, TimeStr(<<10, 4, 0>>), TimeStr(<<10, 4, 0>>)),
            StopTime("t6", CN, 7, TimeStr(<<10, 8, 0>>), TimeStr(<<10, 8, 0>>))>>],
       [trip |-> Trip("t7", "2"),
        stop_times |->
          <<StopTime("t7", AS, 1, TimeStr(<<>>), TimeStr(<<>>)),
            StopTime("t7", BS, 2, TimeStr(<<10, 4, 0>>), NullTime),
            StopTime("t7", CN, 3, TimeStr(<<10, 8, 0>>), TimeStr(<<10, 8, 0>>))>>] >>

\* rows the transfers table can hold
TransferUniverse ==
    << Transfer(A, B, 2, NoValue),
       Transfer(AN, B, 0, Some(0)),
       Transfer(BS, BN, 1, Some(120)),
       Transfer(CN, BN, 3, NoValue) >>

RECURSIVE Flatten(_)
Flatten(seqs) == IF seqs = <<>> THEN <<>> ELSE Head(seqs) \o Flatten(Tail(seqs))

EmptyStore == [stops |-> <<>>, trips |-> <<>>, stop_times |-> <<>>, transfers |-> <<>>]

\* the Static Store holding the given trips and transfers
StoreOf(trip_idx, transfer_idx) ==
    LET picked == PickRows(TripUniverse, trip_idx, 1)
    IN  [stops |-> StopsTable,
         trips |-> [i \in 1..Len(picked) |-> picked[i].trip],
         stop_times |-> Flatten([i \in 1..Len(picked) |-> picked[i].stop_times]),
         transfers |-> PickRows(TransferUniverse, transfer_idx, 1)]

StaticStores ==
    {StoreOf(trip_idx, transfer_idx) :
        trip_idx \in {x \in SUBSET (1..Len(TripUniverse)) : Cardinality(x) <= MaxTrips},
        transfer_idx \in {x \in SUBSET (1..Len(TransferUniverse)) :
                              Cardinality(x) <= MaxStoreTransfers}}

\* a station_graph table left by a build from an earlier static revision
PreviousTable == <<Ride(CN, BN, "2", 240)>>

RouteOrigins == {A, AN, AS}
RouteDestinations == {A, B, BN, C}
RouteMaxTransfers == {0, DefaultMaxTransfers}
SearchStarts == {AN, AS}
SearchEnds == {AN, BN, BS, CN}

OverlayOrigins == {A, AN}
OverlayDestinations == {B, BN, C}

\* stop_time_updates a feed can carry: [stop_id, route_id, eta_seconds]
Update(s, r, eta) == [stop_id |-> s, route_id |-> r, eta_seconds |-> eta]
StopTimeUpdates ==
    {Update(AN, "1", 200), Update(AS, "1", 90),
     Update(ANN, "1", 200), Update(ANN, "1", 90), Update(ANN, "2", 90),
     Update(ANS, "1", 90)}
Feeds == UNION {[1..n -> StopTimeUpdates] : n \in 1..MaxUpdates}

\* what the two feed URLs of the poller specification can yield in a cycle
PollerFeeds ==
    {<<>>,
     <<Update(ANN, "1", 90)>>,
     <<Update(AS, "1", 200)>>,
     <<Update(AE, "1", 90)>>,
     <<Update(ANN, "1", 90), Update(AS, "1", 200)>>,
     <<Update(AS, "1", -1)>>,
     <<Update(ANN, "1", -1), Update(ANN, "1", 0),
       Update(ANN, "2", MaxEtaSeconds), Update(ANN, "2", MaxEtaSeconds + 1)>>}
FeedResults ==
    {Fetched(updates) : updates \in PollerFeeds}
    \cup {FeedFailed(<<>>), FeedFailed(<<Update(ANN, "1", 90)>>)}
Cycles == {<<first, second>> : first \in FeedResults, second \in FeedResults}

\* how long the fetches of a cycle take: no time, or the request timeout
FetchSeconds == {0, ApiTimeoutSeconds}

\* what a feed URL can yield in a cycle of the eta specification: its
\* stop_time_updates with their predicted times, and after, the seconds
\* between the start of the cycle and the arrival of the response
TimedFeed(ok, updates, after) == [ok |-> ok, updates |-> updates, after |-> after]

TimedUpdates ==
    {<<>>,
     <<StopTimeUpdate(ANN, "1", Some(150), NoValue)>>,
     <<StopTimeUpdate(AS, "1", NoValue, Some(200))>>,
     <<StopTimeUpdate(ANN, "2", Some(150), Some(180)),
       StopTimeUpdate(ANN, "1", NoValue, NoValue)>>,
     <<StopTimeUpdate(AS, "2", NoValue, NoValue)>>}

TimedFeeds ==
    {TimedFeed(TRUE, updates, after) : updates \in TimedUpdates, after \in FetchSeconds}
    \cup {TimedFeed(FALSE, <<>>, 0)}

TimedCycles == {<<first, second>> : first \in TimedFeeds, second \in TimedFeeds}

\* what the two feed URLs of the loop specification can yield in a cycle
LoopCycles ==
    {<<Fetched(<<Update(ANN, "1", 90)>>), Fetched(<<Update(AS, "1", 200)>>)>>,
     <<Fetched(<<Update(ANN, "1", 90)>>), FeedFailed(<<>>)>>,
     <<FeedFailed(<<>>), FeedFailed(<<>>)>>}

\* how long the fetches of a cycle take there: no time, the request timeout
\* (which limits each connect, write and read, not the whole request), or
\* longer than the poll interval
LoopFetchSeconds == {0, ApiTimeoutSeconds, PollIntervalSeconds + 1}

\* the keys read in the poller specification
ReadStops == {A, AN}
ReadDirections == {"N", "S"}

CachedCount(store) ==
    Cardinality(UNION {{k} \X (1..Len(store[k].arrivals)) : k \in DOMAIN store})

(***************************************************************************)
(* Initial states                                                          *)
(***************************************************************************)
InitWith(tables) ==
    /\ static_store = EmptyStore
    /\ graph_builder = << >>
    /\ station_graph \in tables
    /\ graph = << >>
    /\ graph_loaded = FALSE
    /\ redis = << >>
    /\ feed_last_update = NoFeedUpdate
    /\ now = 0
    /\ poller = NotStarted
    /\ request = Idle
    /\ best_route = NoPath
    /\ path = NoPath
    /\ search = NoSearch
    /\ response = NoneResponse

Init == InitWith(EdgeTables(1..Len(EdgeUniverse), MaxEdges))

(***************************************************************************)
(* Actions                                                                 *)
(***************************************************************************)
\* _ensure_graph_loaded querying the table on every call
EnsureGraphReloaded == load_graph_from_db(station_graph)

\* _ensure_graph_loaded: the graph a query runs on
_ensure_graph_loaded == IF graph_loaded THEN graph ELSE load_graph_from_db(station_graph)

\* find_best_route(from_stop_id, to_stop_id, db, max_transfers); cache_ok is
\* whether the Redis reads of this call succeed
FindBestRoute(from_stop_id, to_stop_id, max_transfers, cache_ok) ==
    /\ request = Idle
    /\ LET g == _ensure_graph_loaded
           searched == /\ _get_directional_stop_ids(g, from_stop_id) # <<>>
                       /\ _get_directional_stop_ids(g, to_stop_id) # <<>>
                       /\ from_stop_id # to_stop_id
       IN  /\ graph' = g
           /\ graph_loaded' = TRUE
           /\ best_route' = IF searched
                            THEN BestRoute(g, from_stop_id, to_stop_id, max_transfers)
                            ELSE NoPath
           /\ response' = find_best_route(g, redis, cache_ok, from_stop_id,
                                          to_stop_id, max_transfers)
    /\ request' = [op |-> "find_best_route", from_stop_id |-> from_stop_id,
                   to_stop_id |-> to_stop_id, max_transfers |-> max_transfers,
                   cache_ok |-> cache_ok]
    /\ UNCHANGED <<search, static_store, graph_builder,
                   station_graph, redis, feed_last_update, now, poller, path>>

\* a direct call of _dijkstra(start, end, max_transfers) on the planner's graph
Dijkstra(start, end, max_transfers) ==
    /\ request = Idle
    /\ path' = _dijkstra(graph, start, end, max_transfers)
    /\ request' = [op |-> "_dijkstra", from_stop_id |-> start, to_stop_id |-> end,
                   max_transfers |-> max_transfers, cache_ok |-> TRUE]
    /\ UNCHANGED <<search, static_store, graph_builder,
                   station_graph, graph, graph_loaded, redis, feed_last_update, now, poller,
                   best_route, response>>

\* a _dijkstra(start, end, max_transfers) call on the planner's graph followed
\* iteration by iteration: its first three statements
DijkstraBegin(start, end, max_transfers) ==
    /\ request = Idle
    /\ request' = [op |-> "_dijkstra by steps", from_stop_id |-> start,
                   to_stop_id |-> end, max_transfers |-> max_transfers,
                   cache_ok |-> TRUE]
    /\ search' = [running |-> TRUE,
                  pq |-> {[cost |-> 0, stop |-> start, transfers |-> 0, path |-> <<>>]},
                  best_costs |-> << >>,
                  visited |-> {},
                  expanded |-> << >>]
    /\ UNCHANGED <<static_store, graph_builder,
                   station_graph, graph, graph_loaded, redis, feed_last_update, now, poller,
                   best_route, path, response>>

\* a loop that takes no state for visited
NeverInVisited(state, visited) == FALSE

\* "if state in visited"
InVisited(state, visited) == state \in visited

\* one evaluation of "while pq" and, when the queue is not empty, one
\* iteration of the loop; expanded lists the states that passed
\* "if state in visited: continue", in the order they were popped
DijkstraIteration ==
    /\ search.running
    /\ IF search.pq = {}
       THEN /\ path' = NoPath
            /\ search' = [search EXCEPT !.running = FALSE]
       ELSE LET cur == HeapPop(search.pq)
                rest == [pq |-> search.pq \ {cur}, best_costs |-> search.best_costs]
                state == <<cur.stop, cur.transfers>>
                relaxed == Relax(Connections(graph, cur.stop), cur,
                                 request.max_transfers, rest)
            IN  IF InVisited(state, search.visited)
                THEN /\ search' = [search EXCEPT !.pq = rest.pq]
                     /\ UNCHANGED path
                ELSE IF cur.stop = request.to_stop_id
                THEN /\ path' = FoundPath(cur.path)
                     /\ search' = [search EXCEPT !.running = FALSE,
                                                 !.pq = rest.pq,
                                                 !.visited = @ \cup {state},
                                                 !.expanded = Append(@, state)]
                ELSE IF cur.transfers > request.max_transfers
                THEN /\ search' = [search EXCEPT !.pq = rest.pq,
                                                 !.visited = @ \cup {state},
                                                 !.expanded = Append(@, state)]
                     /\ UNCHANGED path
                ELSE /\ search' = [search EXCEPT !.pq = relaxed.pq,
                                                 !.best_costs = relaxed.best_costs,
                                                 !.visited = @ \cup {state},
                                                 !.expanded = Append(@, state)]
                     /\ UNCHANGED path
    /\ UNCHANGED <<static_store, graph_builder,
                   station_graph, graph, graph_loaded, redis, feed_last_update, now, poller,
                   request, best_route, response>>

\* the caller has taken the value the followed call returned
SearchReturn ==
    /\ request.op = "_dijkstra by steps"
    /\ ~search.running
    /\ request' = Idle
    /\ path' = NoPath
    /\ search' = NoSearch
    /\ UNCHANGED <<static_store, graph_builder,
                   station_graph, graph, graph_loaded, redis, feed_last_update, now, poller,
                   best_route, response>>

\* the caller has taken the returned value
Return ==
    /\ request # Idle
    /\ request' = Idle
    /\ best_route' = NoPath
    /\ path' = NoPath
    /\ response' = NoneResponse
    /\ UNCHANGED <<search, static_store, graph_builder,
                   station_graph, graph, graph_loaded, redis, feed_last_update, now, poller>>

\* clear_graph_cache
ClearGraphCache ==
    /\ request = Idle
    /\ graph_loaded
    /\ graph' = << >>
    /\ graph_loaded' = FALSE
    /\ UNCHANGED <<search, static_store, graph_builder,
                   station_graph, redis, feed_last_update, now, poller,
                   request, best_route, path, response>>

\* StationGraphBuilder._save_graph_to_db: DELETE and the batched inserts run
\* in one transaction, so the rows of station_graph are replaced at db.commit()
SaveGraphToDb(rows) ==
    /\ request = Idle
    /\ rows # station_graph
    /\ station_graph' = rows
    /\ UNCHANGED <<search, static_store, graph_builder,
                   graph, graph_loaded, redis, feed_last_update, now, poller,
                   request, best_route, path, response>>

\* build_graph(db) on a new StationGraphBuilder (fresh, as
\* scripts/build_graph.py does) or on the module-level graph_builder:
\* steps 1 and 2 append to self.graph, step 3 saves all of self.graph
BuildGraph(fresh, db_error) ==
    LET appended == build_graph(IF fresh THEN << >> ELSE graph_builder, static_store)
        edges == GraphItems(appended)
        saved == _save_graph_to_db(station_graph, edges, db_error)
    IN  /\ request = Idle
        /\ Len(appended) <= MaxBuilderEdges
        /\ graph_builder' = IF fresh THEN graph_builder ELSE appended
        /\ station_graph' = saved.rows
        /\ request' = [op |-> "build_graph", fresh |-> fresh, db_error |-> db_error]
        /\ response' = [kind |-> IF saved.raised THEN "raised" ELSE "built",
                        edges |-> edges]
        /\ UNCHANGED <<search, static_store, graph, graph_loaded, redis, feed_last_update, now,
                       poller, best_route, path>>

\* a direct call of GTFSRealtimeFetcher.update_cache with one feed URL
\* serving the given stop_time_updates, completed within the second it starts
PollCycle(updates, cache_ok) ==
    /\ request = Idle
    /\ redis' = update_cache(redis, cache_ok,
                             fetch_all_feeds(<<Fetched(updates)>>, <<>>), now, now)
    /\ feed_last_update' = set_feed_update(feed_last_update, cache_ok, now)
    /\ CachedCount(redis') <= MaxCached
    /\ UNCHANGED <<search, static_store, graph_builder,
                   station_graph, graph, graph_loaded, now, poller,
                   request, best_route, path, response>>

\* GTFSRealtimePoller.start(): nothing when already running, else a task
\* running _poll_loop is created
Start ==
    /\ request = Idle
    /\ ~poller.is_running
    /\ ~poller.stopping
    /\ poller' = [poller EXCEPT !.is_running = TRUE, !.pc = "ready"]
    /\ UNCHANGED <<search, static_store, graph_builder,
                   station_graph, graph, graph_loaded, redis, feed_last_update, now,
                   request, best_route, path, response>>

\* _poll_loop at the test of "while self.is_running": when it holds,
\* update_cache takes start_time and the task is suspended in the gather of
\* fetch_all_feeds with the fetches sent, else the loop ends
PollLoop ==
    /\ request = Idle
    /\ poller.pc = "ready"
    /\ ~poller.must_cancel
    /\ poller' = IF poller.is_running
                 THEN [poller EXCEPT !.pc = "fetching", !.start_time = now]
                 ELSE [poller EXCEPT !.pc = "done"]
    /\ UNCHANGED <<search, static_store, graph_builder,
                   station_graph, graph, graph_loaded, redis, feed_last_update, now,
                   request, best_route, path, response>>

\* update_cache from the return of the gather, took seconds after the
\* fetches were sent, to the sleep of _poll_loop: the results of the feed
\* URLs are merged and put, then the feed timestamp is set. The Redis
\* client is synchronous, so the task is not suspended between the gather
\* and the sleep. A closed client fails every request
UpdateCache(feeds, took, cache_ok) ==
    /\ request = Idle
    /\ poller.pc = "fetching"
    /\ ~poller.must_cancel
    /\ poller.client_closed => \A i \in 1..Len(feeds) : feeds[i] = FeedFailed(<<>>)
    /\ now + took <= MaxTime
    /\ now' = now + took
    /\ redis' = update_cache(Unexpired(redis, now'), cache_ok,
                             fetch_all_feeds(feeds, <<>>), poller.start_time, now')
    /\ feed_last_update' = set_feed_update(feed_last_update, cache_ok, poller.start_time)
    /\ CachedCount(redis') <= MaxCached
    /\ poller' = [poller EXCEPT !.pc = "sleeping", !.feeds = feeds,
                                !.cache_ok = cache_ok]
    /\ UNCHANGED <<search, static_store, graph_builder,
                   station_graph, graph, graph_loaded, request, best_route, path, response>>

\* the feed results update_cache works on, given what the feed URLs yield:
\* each response is processed when it arrives
FeedsProcessed(timed_feeds, start_time) ==
    [i \in 1..Len(timed_feeds) |->
        [ok |-> timed_feeds[i].ok,
         updates |-> WithEtaSeconds(timed_feeds[i].updates,
                                    start_time + timed_feeds[i].after)]]

\* update_cache over feeds given with their predicted times; the gather
\* returns when the last response has arrived
UpdateCacheOfFeeds(timed_feeds, took, cache_ok) ==
    /\ \A i \in 1..Len(timed_feeds) : timed_feeds[i].after <= took
    /\ \E i \in 1..Len(timed_feeds) : timed_feeds[i].after = took
    /\ UpdateCache(FeedsProcessed(timed_feeds, poller.start_time), took, cache_ok)

\* "await asyncio.sleep(settings.gtfs_rt_poll_interval_seconds)" of
\* _poll_loop, which follows every return of update_cache: update_cache
\* catches every Exception itself and returns False (lines 206-208), so the
\* handler of lines 259-262 is not entered by a failing cycle
Sleep ==
    /\ request = Idle
    /\ poller.pc = "sleeping"
    /\ ~poller.must_cancel
    /\ now + PollIntervalSeconds <= MaxTime
    /\ now' = now + PollIntervalSeconds
    /\ redis' = Unexpired(redis, now')
    /\ poller' = [poller EXCEPT !.pc = "ready"]
    /\ UNCHANGED <<search, static_store, graph_builder,
                   station_graph, graph, graph_loaded, feed_last_update,
                   request, best_route, path, response>>

\* task.cancel() leaving the task as it is
TaskNotCancelled(p) == p

\* task.cancel(): a CancelledError is thrown into the task when it runs next
task_cancel(p) == [p EXCEPT !.must_cancel = TRUE]

\* GTFSRealtimePoller.stop() up to "await self.task": nothing when not
\* running, else is_running is cleared and the task is cancelled
Stop ==
    /\ request = Idle
    /\ poller.is_running
    /\ poller' = task_cancel([poller EXCEPT !.is_running = FALSE, !.stopping = TRUE])
    /\ UNCHANGED <<search, static_store, graph_builder,
                   station_graph, graph, graph_loaded, redis, feed_last_update, now,
                   request, best_route, path, response>>

\* the task runs with a cancellation pending: the CancelledError (not an
\* Exception, so neither _fetch_single_feed nor update_cache catches it) is
\* raised at the await the task is suspended in, the gather cancels the
\* fetches it waits for, and "except asyncio.CancelledError: break" ends
\* the loop; a task cancelled before its first step never runs
Cancelled ==
    /\ request = Idle
    /\ poller.must_cancel
    /\ poller.pc \in {"ready", "fetching", "sleeping"}
    /\ poller' = [poller EXCEPT !.pc = "done", !.must_cancel = FALSE]
    /\ UNCHANGED <<search, static_store, graph_builder,
                   station_graph, graph, graph_loaded, redis, feed_last_update, now,
                   request, best_route, path, response>>

\* stop() from the end of the task to its return: "await self.task"
\* completes and fetcher.close() closes the HTTP client
StopReturns ==
    /\ request = Idle
    /\ poller.stopping
    /\ poller.pc = "done"
    /\ poller' = [poller EXCEPT !.stopping = FALSE, !.client_closed = TRUE]
    /\ UNCHANGED <<search, static_store, graph_builder,
                   station_graph, graph, graph_loaded, redis, feed_last_update, now,
                   request, best_route, path, response>>

\* start() called while a stop() awaits the task it cancelled: is_running
\* is false, so a new task is created and self.task names it; the task of
\* before, with the stop() that awaits it, is left to end
StartDuringStop ==
    /\ request = Idle
    /\ ~poller.is_running
    /\ poller.stopping
    /\ Len(poller.superseded) < MaxSuperseded
    /\ poller' = [poller EXCEPT !.is_running = TRUE, !.pc = "ready",
                                !.must_cancel = FALSE, !.stopping = FALSE,
                                !.superseded =
                                    Append(@, [pc |-> poller.pc,
                                               must_cancel |-> poller.must_cancel])]
    /\ UNCHANGED <<search, static_store, graph_builder,
                   station_graph, graph, graph_loaded, redis, feed_last_update, now,
                   request, best_route, path, response>>

\* a replaced task runs with its cancellation pending and ends, as in
\* Cancelled
SupersededCancelled(i) ==
    /\ request = Idle
    /\ i \in 1..Len(poller.superseded)
    /\ poller.superseded[i].must_cancel
    /\ poller.superseded[i].pc \in {"ready", "fetching", "sleeping"}
    /\ poller' = [poller EXCEPT !.superseded[i] = [pc |-> "done", must_cancel |-> FALSE]]
    /\ UNCHANGED <<search, static_store, graph_builder,
                   station_graph, graph, graph_loaded, redis, feed_last_update, now,
                   request, best_route, path, response>>

\* the stop() that awaits a replaced task returns once that task has ended;
\* its fetcher.close() closes the HTTP client, which the new task uses too
SupersededStopReturns(i) ==
    /\ request = Idle
    /\ i \in 1..Len(poller.superseded)
    /\ poller.superseded[i].pc = "done"
    /\ poller' = [poller EXCEPT !.client_closed = TRUE,
                                !.superseded =
                                    SubSeq(@, 1, i - 1) \o SubSeq(@, i + 1, Len(@))]
    /\ UNCHANGED <<search, static_store, graph_builder,
                   station_graph, graph, graph_loaded, redis, feed_last_update, now,
                   request, best_route, path, response>>

\* seconds pass with no poll cycle; Redis drops the keys whose TTL runs out
Elapse(seconds) ==
    /\ request = Idle
    /\ now + seconds <= MaxTime
    /\ now' = now + seconds
    /\ redis' = Unexpired(redis, now')
    /\ UNCHANGED <<search, static_store, graph_builder,
                   station_graph, graph, graph_loaded, feed_last_update, poller,
                   request, best_route, path, response>>

\* a call of arrivals_cache.get_arrivals(stop_id, direction)
GetArrivals(stop_id, direction) ==
    /\ request = Idle
    /\ request' = [op |-> "get_arrivals", stop_id |-> stop_id, direction |-> direction]
    /\ response' = get_arrivals(redis, TRUE, stop_id, direction)
    /\ UNCHANGED <<search, static_store, graph_builder,
                   station_graph, graph, graph_loaded, redis, feed_last_update, now,
                   poller, best_route, path>>

(***************************************************************************)
(* Specifications                                                          *)
(***************************************************************************)
\* the search: queries and direct searches over every edge table, empty cache
Next ==
    \/ \E f \in RouteOrigins, t \in RouteDestinations, m \in RouteMaxTransfers :
          FindBestRoute(f, t, m, TRUE)
    \/ \E s \in SearchStarts, e \in SearchEnds, m \in 0..DefaultMaxTransfers :
          Dijkstra(s, e, m)
    \/ Return
    \/ ClearGraphCache

Spec == Init /\ [][Next]_vars

\* the live overlay: queries against a cache filled by poll cycles
InitOverlay == InitWith(EdgeTables(OverlayRows, MaxOverlayEdges))

NextOverlay ==
    \/ \E f \in OverlayOrigins, t \in OverlayDestinations, ok \in BOOLEAN :
          FindBestRoute(f, t, DefaultMaxTransfers, ok)
    \/ \E updates \in Feeds : PollCycle(updates, TRUE)
    \/ Elapse(RedisTtlSeconds)
    \/ Return

SpecOverlay == InitOverlay /\ [][NextOverlay]_vars

\* reloading: queries between commits of the graph builder and calls of
\* clear_graph_cache
InitReload == InitWith(EdgeTables(ReloadRows, MaxReloadEdges))

NextReload ==
    \/ \E f \in OverlayOrigins, t \in OverlayDestinations :
          FindBestRoute(f, t, DefaultMaxTransfers, TRUE)
    \/ Return
    \/ ClearGraphCache
    \/ \E rows \in EdgeTables(ReloadRows, MaxReloadEdges) : SaveGraphToDb(rows)

SpecReload == InitReload /\ [][NextReload]_vars

\* the poller: poll cycles over two feed URLs, the sleeps between them and
\* reads of the cache
InitPoller == InitWith({<< >>})

NextPoller ==
    \/ Start
    \/ PollLoop
    \/ \E feeds \in Cycles, took \in FetchSeconds, ok \in BOOLEAN :
          UpdateCache(feeds, took, ok)
    \/ Sleep
    \/ \E stop_id \in ReadStops, direction \in ReadDirections :
          GetArrivals(stop_id, direction)
    \/ Return

SpecPoller == InitPoller /\ [][NextPoller]_vars

\* the etas of a poll cycle: cycles over feeds given with their predicted
\* times
NextEta ==
    \/ Start
    \/ PollLoop
    \/ \E timed_feeds \in TimedCycles, took \in FetchSeconds, ok \in BOOLEAN :
          UpdateCacheOfFeeds(timed_feeds, took, ok)
    \/ Sleep

SpecEta == InitPoller /\ [][NextEta]_vars

\* searches followed iteration by iteration, on a graph already loaded; the
\* call runs synchronously, so a loop that has an iteration left takes it
InitSearch ==
    /\ static_store = EmptyStore
    /\ graph_builder = << >>
    /\ station_graph \in SearchTables
    /\ graph = load_graph_from_db(station_graph)
    /\ graph_loaded = TRUE
    /\ redis = << >>
    /\ feed_last_update = NoFeedUpdate
    /\ now = 0
    /\ poller = NotStarted
    /\ request = Idle
    /\ best_route = NoPath
    /\ path = NoPath
    /\ search = NoSearch
    /\ response = NoneResponse

NextSearch ==
    \/ \E s \in SearchStarts, e \in SearchEnds, m \in 0..DefaultMaxTransfers :
          DijkstraBegin(s, e, m)
    \/ DijkstraIteration
    \/ SearchReturn

SpecSearch == InitSearch /\ [][NextSearch]_vars

SpecSearchLive == SpecSearch /\ WF_vars(DijkstraIteration)

\* the graph compiler: builds over a Static Store, by new builders and by
\* the module-level one, with and without database errors
InitBuild ==
    /\ static_store \in StaticStores
    /\ graph_builder = << >>
    /\ station_graph \in {<< >>, PreviousTable}
    /\ graph = << >>
    /\ graph_loaded = FALSE
    /\ redis = << >>
    /\ feed_last_update = NoFeedUpdate
    /\ now = 0
    /\ poller = NotStarted
    /\ request = Idle
    /\ best_route = NoPath
    /\ path = NoPath
    /\ search = NoSearch
    /\ response = NoneResponse

NextBuild ==
    \/ \E fresh \in BOOLEAN, db_error \in BOOLEAN : BuildGraph(fresh, db_error)
    \/ Return

SpecBuild == InitBuild /\ [][NextBuild]_vars

\* the poll loop: calls of start() and stop() at any point of the loop
NextLoop ==
    \/ Start
    \/ PollLoop
    \/ \E feeds \in LoopCycles, took \in LoopFetchSeconds, ok \in BOOLEAN :
          UpdateCache(feeds, took, ok)
    \/ Sleep
    \/ Stop
    \/ Cancelled
    \/ StopReturns

SpecLoop == InitPoller /\ [][NextLoop]_vars

\* the poll loop with calls of start() also while a stop() has not returned
NextStartStop ==
    \/ Start
    \/ PollLoop
    \/ \E feeds \in LoopCycles, took \in FetchSeconds : UpdateCache(feeds, took, TRUE)
    \/ Sleep
    \/ Stop
    \/ Cancelled
    \/ StopReturns
    \/ StartDuringStop
    \/ \E i \in 1..MaxSuperseded : SupersededCancelled(i)
    \/ \E i \in 1..MaxSuperseded : SupersededStopReturns(i)

SpecStartStop == InitPoller /\ [][NextStartStop]_vars

\* the event loop runs a task that a cancellation made ready, and resumes
\* stop() once the task it awaits has ended
SpecLoopLive == SpecLoop /\ WF_vars(Cancelled) /\ WF_vars(StopReturns)

(***************************************************************************)
(* Vocabulary of the properties                                            *)
(***************************************************************************)
IsQuery == request.op = "find_best_route"
IsItinerary == IsQuery /\ response.kind = "route" /\ response.legs # <<>>
IsSearch == request.op = "_dijkstra"

\* the base id of a platform: the id without its direction suffix
BaseStopId(stop_id) ==
    IF EndsWithDirection(stop_id) THEN SubSeq(stop_id, 1, Len(stop_id) - 1) ELSE stop_id

\* eta of every cached prediction of a route under the four buckets of a stop id
BucketEtas(stop_id, route_id, d) ==
    IF <<stop_id, d>> \in DOMAIN redis
    THEN {redis[<<stop_id, d>>].arrivals[i].eta_s :
            i \in {j \in 1..Len(redis[<<stop_id, d>>].arrivals) :
                      redis[<<stop_id, d>>].arrivals[j].route_id = route_id}}
    ELSE {}

MatchingEtas(stop_id, route_id) ==
    UNION {BucketEtas(stop_id, route_id, d) : d \in DirectionSet}

MinOf(S) == CHOOSE m \in S : \A x \in S : m <= x

TransferCount(p) == Cardinality({i \in 1..Len(p) : p[i].is_transfer})
RideCount(p) == Cardinality({i \in 1..Len(p) : ~p[i].is_transfer})

\* sum of travel_time over the non-transfer edges of a path
TravelSum(p) ==
    SumSeq([i \in 1..Len(p) |-> IF p[i].is_transfer THEN 0 ELSE p[i].travel_time])

\* travel_time + transfer_penalty of the row a path edge was built from
EdgeCost(e) ==
    LET conn == CHOOSE c \in Range(graph[e.from_stop]) :
                    c.to_stop_id = e.to_stop /\ c.route_id = e.route_id
    IN  conn.travel_time + conn.transfer_penalty

PathCost(p) == SumSeq([i \in 1..Len(p) |-> EdgeCost(p[i])])

\* the paths the inner search finds for the pairs the query tries
FoundFrom(o) ==
    {r.path : r \in {x \in {_dijkstra(graph, o, d, request.max_transfers) :
                              d \in Range(_get_directional_stop_ids(graph, request.to_stop_id)) \ {o}} :
                        x.found /\ x.path # <<>>}}

FoundPaths ==
    UNION {FoundFrom(o) : o \in Range(_get_directional_stop_ids(graph, request.from_stop_id))}

Searched ==
    /\ IsQuery
    /\ request.from_stop_id # request.to_stop_id
    /\ _get_directional_stop_ids(graph, request.from_stop_id) # <<>>
    /\ _get_directional_stop_ids(graph, request.to_stop_id) # <<>>

(***************************************************************************)
(* C1                                                                      *)
(***************************************************************************)
\* C1: in every returned itinerary the first leg has transfer = false and
\* every later leg has transfer = true, so transfers = #legs - 1 (0 when
\* there is no leg)
C1_FirstLegNeverTransfer ==
    (IsQuery /\ response.kind = "route") =>
        /\ \A i \in 1..Len(response.legs) : response.legs[i].transfer = (i > 1)
        /\ response.transfers =
              (IF Len(response.legs) > 0 THEN Len(response.legs) - 1 ELSE 0)

(***************************************************************************)
(* C2                                                                      *)
(***************************************************************************)
\* C2: when the cache holds, under (base id of the first leg's origin, dir)
\* for some dir, a prediction of the first leg's route, the first leg's
\* board_in_s is the eta of such a prediction
C2_BaseKeyPredictionOverlaid ==
    (IsItinerary /\ request.cache_ok) =>
        LET leg == response.legs[1]
            etas == MatchingEtas(BaseStopId(leg.from_stop_id), leg.route_id)
        IN  etas # {} => leg.board_in_s \in etas

(***************************************************************************)
(* C3                                                                      *)
(***************************************************************************)
\* C3: when predictions of the first leg's route exist under more than one
\* direction bucket of the origin's base id, board_in_s of the first leg is
\* the minimum eta over all four buckets
C3_MinimumOverAllBuckets ==
    (IsItinerary /\ request.cache_ok) =>
        LET leg == response.legs[1]
            base == BaseStopId(leg.from_stop_id)
            filled == {d \in DirectionSet : BucketEtas(base, leg.route_id, d) # {}}
        IN  Cardinality(filled) > 1 =>
                leg.board_in_s = MinOf(MatchingEtas(base, leg.route_id))

(***************************************************************************)
(* C4                                                                      *)
(***************************************************************************)
\* C4: a query whose retained path has a ride edge returns an itinerary also
\* when the cache read fails; every leg after the first has board_in_s =
\* run_s, and so has the first leg when no prediction of its route can be
\* read for its origin (no entry under the platform id or its base id, or
\* the read raises)
C4_ScheduledFallback ==
    IsQuery =>
        /\ (best_route.found /\ RideCount(best_route.path) > 0) => IsItinerary
        /\ response.kind = "route" =>
              /\ \A i \in 2..Len(response.legs) :
                    response.legs[i].board_in_s = response.legs[i].run_s
              /\ \A i \in 1..Len(response.legs) :
                    response.legs[i].run_s =
                        SelectSeq(best_route.path, LAMBDA e : ~e.is_transfer)[i].travel_time
              /\ (/\ response.legs # <<>>
                  /\ \/ ~request.cache_ok
                     \/ MatchingEtas(response.legs[1].from_stop_id,
                                     response.legs[1].route_id)
                        \cup MatchingEtas(BaseStopId(response.legs[1].from_stop_id),
                                          response.legs[1].route_id) = {})
                 => response.legs[1].board_in_s = response.legs[1].run_s

\* a two-leg itinerary answered while the cache read fails, although the
\* cache holds a prediction of the first leg's route for its origin
C4_Witness ==
    /\ IsItinerary
    /\ ~request.cache_ok
    /\ Len(response.legs) = 2
    /\ MatchingEtas(response.legs[1].from_stop_id, response.legs[1].route_id) # {}
    /\ response.legs[1].board_in_s = response.legs[1].run_s

(***************************************************************************)
(* C5                                                                      *)
(***************************************************************************)
\* C5: a platform that is the target of some edge is accepted as a
\* destination: a query from a platform to a platform that the inner search
\* reaches by a path with a ride edge returns an itinerary
C5_TargetOnlyDestinationRouted ==
    (/\ IsQuery
     /\ EndsWithDirection(request.from_stop_id)
     /\ EndsWithDirection(request.to_stop_id)
     /\ request.from_stop_id # request.to_stop_id
     /\ \E i \in 1..Len(station_graph) : station_graph[i].to_stop_id = request.to_stop_id
     /\ LET r == _dijkstra(graph, request.from_stop_id, request.to_stop_id,
                           request.max_transfers)
        IN  r.found /\ RideCount(r.path) > 0)
    => IsItinerary

(***************************************************************************)
(* C6                                                                      *)
(***************************************************************************)
\* C6: the path an itinerary is built from has the smallest cumulative edge
\* cost (travel_time + transfer_penalty over all its edges) among the paths
\* found for the tried pairs
C6_MinimumCumulativeCost ==
    (Searched /\ IsItinerary) =>
        \A p \in FoundPaths : PathCost(best_route.path) <= PathCost(p)

(***************************************************************************)
(* C7                                                                      *)
(***************************************************************************)
\* the origin is a base id whose N and S platforms are both routed, the S
\* platform with a smaller travel-time sum than each of the other platforms
SouthIsCheapest ==
    /\ Searched
    /\ ~EndsWithDirection(request.from_stop_id)
    /\ FoundFrom(Append(request.from_stop_id, "N")) # {}
    /\ FoundFrom(Append(request.from_stop_id, "S")) # {}
    /\ \A p \in FoundPaths \ FoundFrom(Append(request.from_stop_id, "S")) :
          \E q \in FoundFrom(Append(request.from_stop_id, "S")) :
              TravelSum(q) < TravelSum(p)

\* C7 as stated: with a base-id origin whose S platform gives the smaller
\* sum, the itinerary the query yields starts at the S platform
C7_ItineraryStartsAtSouth ==
    (SouthIsCheapest /\ IsItinerary) =>
        response.legs[1].from_stop_id = Append(request.from_stop_id, "S")

\* C7 amended: the retained path is one of the found paths and has the
\* smallest sum of travel_time over its non-transfer edges; when the S
\* platform gives the smaller sum the retained path starts at the S platform,
\* and a returned itinerary starts there exactly when the first edge of that
\* path is not a transfer edge
C7_MinimumTravelSumRetained ==
    Searched =>
        /\ best_route.found <=> FoundPaths # {}
        /\ best_route.found =>
              /\ best_route.path \in FoundPaths
              /\ \A p \in FoundPaths : TravelSum(best_route.path) <= TravelSum(p)
        /\ SouthIsCheapest =>
              /\ best_route.path[1].from_stop = Append(request.from_stop_id, "S")
              /\ IsItinerary =>
                    ((response.legs[1].from_stop_id = Append(request.from_stop_id, "S"))
                        <=> ~best_route.path[1].is_transfer)

\* a base-id origin with both platforms routed, the S platform cheaper, and
\* the itinerary starting at the S platform
C7_Witness ==
    /\ SouthIsCheapest
    /\ IsItinerary
    /\ response.legs[1].from_stop_id = Append(request.from_stop_id, "S")

(***************************************************************************)
(* C8                                                                      *)
(***************************************************************************)
\* the (node, transfer_count) states reachable from S over the edges of the
\* planner's graph with at most m transfer edges
RECURSIVE ReachableStates(_, _)
ReachableStates(S, m) ==
    LET moves == UNION {{<<s, c>> : c \in Range(Connections(graph, s[1]))} : s \in S}
        next == {<<x[2].to_stop_id, x[1][2] + (IF x[2].is_transfer THEN 1 ELSE 0)>> :
                    x \in moves}
        bounded == S \cup {s \in next : s[2] <= m}
    IN  IF bounded = S THEN S ELSE ReachableStates(bounded, m)

PathExists(start, end, m) ==
    \E k \in 0..m : <<end, k>> \in ReachableStates({<<start, 0>>}, m)

\* C8: a direct search never returns a path with more than max_transfers
\* transfer edges, and returns a path exactly when the graph has a path from
\* start to end with at most max_transfers transfer edges (for
\* max_transfers = 0: a path of ride edges only)
C8_TransferBound ==
    IsSearch =>
        /\ path.found => TransferCount(path.path) <= request.max_transfers
        /\ path.found <=> PathExists(request.from_stop_id, request.to_stop_id,
                                     request.max_transfers)

\* a search that needs its whole transfer budget, and one more transfer than
\* the budget below it
C8_Witness ==
    /\ IsSearch
    /\ path.found
    /\ request.max_transfers > 0
    /\ TransferCount(path.path) = request.max_transfers
    /\ ~PathExists(request.from_stop_id, request.to_stop_id, request.max_transfers - 1)

(***************************************************************************)
(* C9                                                                      *)
(***************************************************************************)
\* the graph of test_dijkstra_with_transfer on the platforms AN, BN, CN
TransferTestGraph ==
    load_graph_from_db(<< Ride(AN, BN, "1", 300),
                          Ride(BN, CN, "2", 240),
                          TransferEdge(BN, BN, "TRANSFER", 180) >>)

\* C9: a returned path that rides two edges of different routes one after
\* the other at a station with a transfer edge has that transfer edge between
\* them; on the test graph the search AN -> CN with max_transfers = 2 returns
\* [ride, transfer, ride], and with max_transfers = 0 no path
C9_TransferBetweenRoutes ==
    IsSearch =>
        /\ path.found =>
              \A i \in 1..(Len(path.path) - 1) :
                  (/\ ~path.path[i].is_transfer
                   /\ ~path.path[i + 1].is_transfer
                   /\ path.path[i].route_id # path.path[i + 1].route_id)
                  => ~\E c \in Range(Connections(graph, path.path[i].to_stop)) : c.is_transfer
        /\ (graph = TransferTestGraph /\ request.from_stop_id = AN /\ request.to_stop_id = CN) =>
              /\ request.max_transfers = 2 =>
                    /\ path.found
                    /\ Len(path.path) = 3
                    /\ ~path.path[1].is_transfer
                    /\ path.path[2].is_transfer
                    /\ ~path.path[3].is_transfer
              /\ request.max_transfers = 0 => ~path.found

(***************************************************************************)
(* C10                                                                     *)
(***************************************************************************)
RECURSIVE LegSeconds(_)
LegSeconds(legs) ==
    IF legs = <<>> THEN 0
    ELSE Head(legs).board_in_s + Head(legs).run_s + LegSeconds(Tail(legs))

\* C10: total_eta_s of a returned itinerary is the sum over its legs of
\* board_in_s + run_s
C10_TotalIsSumOfLegs ==
    (IsQuery /\ response.kind = "route") =>
        response.total_eta_s = LegSeconds(response.legs)

\* an itinerary whose first leg boards on a live prediction
C10_Witness ==
    /\ IsItinerary
    /\ response.legs[1].board_in_s # response.legs[1].run_s
    /\ response.legs[1].board_in_s
          \in MatchingEtas(response.legs[1].from_stop_id, response.legs[1].route_id)
    /\ response.total_eta_s = response.legs[1].board_in_s + response.legs[1].run_s

(***************************************************************************)
(* C11                                                                     *)
(***************************************************************************)
\* the route_id the graph builder gives to its transfer edges
TransferLabels == {"TRANSFER", "PLATFORM_TRANSFER"}

\* C11: no leg of a returned itinerary has route_id TRANSFER or
\* PLATFORM_TRANSFER; the legs are the non-transfer edges of the retained
\* path, in path order
C11_NoTransferLeg ==
    (IsQuery /\ response.kind = "route") =>
        LET rides == SelectSeq(best_route.path, LAMBDA e : ~e.is_transfer)
        IN  /\ \A i \in 1..Len(response.legs) :
                  response.legs[i].route_id \notin TransferLabels
            /\ Len(response.legs) = Len(rides)
            /\ \A i \in 1..Len(response.legs) :
                  /\ response.legs[i].route_id = rides[i].route_id
                  /\ response.legs[i].from_stop_id = rides[i].from_stop
                  /\ response.legs[i].to_stop_id = rides[i].to_stop

\* an itinerary built from a path that crosses a TRANSFER edge and a
\* PLATFORM_TRANSFER edge
C11_Witness ==
    /\ IsItinerary
    /\ \E i \in 1..Len(best_route.path) : best_route.path[i].route_id = "TRANSFER"
    /\ \E i \in 1..Len(best_route.path) : best_route.path[i].route_id = "PLATFORM_TRANSFER"
    /\ Len(response.legs) < Len(best_route.path)

(***************************************************************************)
(* C12                                                                     *)
(***************************************************************************)
\* C12: a query whose two expansions are not empty fails exactly when the
\* inner search finds no path for any tried pair; when some inner search
\* reaches the destination, also by transfer edges only, an itinerary is
\* returned
C12_NoRouteOnlyWhenNoPath ==
    Searched => ((response.kind = "none") <=> (FoundPaths = {}))

(***************************************************************************)
(* C13                                                                     *)
(***************************************************************************)
\* the failure a query runs into on graph g, by the order of the checks of
\* find_best_route
FailureOf(g, from_stop_id, to_stop_id, max_transfers) ==
    IF _get_directional_stop_ids(g, from_stop_id) = <<>> THEN "origin-not-found"
    ELSE IF _get_directional_stop_ids(g, to_stop_id) = <<>> THEN "destination-not-found"
    ELSE IF from_stop_id = to_stop_id THEN "no-failure"
    ELSE IF ~BestRoute(g, from_stop_id, to_stop_id, max_transfers).found THEN "no-route"
    ELSE "no-failure"

Failures == {"origin-not-found", "destination-not-found", "no-route"}

\* C13: the value a failed query returns tells its failure from the two
\* other failures: no query that fails on the same graph with another of
\* origin-not-found, destination-not-found and no-route returns the same value
C13_FailuresDistinguishable ==
    (IsQuery /\ FailureOf(graph, request.from_stop_id, request.to_stop_id,
                          request.max_transfers) \in Failures) =>
        \A f \in RouteOrigins, t \in RouteDestinations :
            LET other == FailureOf(graph, f, t, request.max_transfers)
            IN  (/\ other \in Failures
                 /\ other # FailureOf(graph, request.from_stop_id, request.to_stop_id,
                                     request.max_transfers))
                => find_best_route(graph, redis, TRUE, f, t, request.max_transfers)
                      # response

(***************************************************************************)
(* C14                                                                     *)
(***************************************************************************)
\* C14: a query whose origin and destination are the same input, whether or
\* not the stop is in the graph, returns an itinerary with no legs,
\* transfers = 0 and total_eta_s = 0, and retains no searched path
C14_SameEndpointEmptyItinerary ==
    (IsQuery /\ request.from_stop_id = request.to_stop_id) =>
        /\ response.kind = "route"
        /\ response.legs = <<>>
        /\ response.transfers = 0
        /\ response.total_eta_s = 0
        /\ ~best_route.found

(***************************************************************************)
(* C15                                                                     *)
(***************************************************************************)
\* C15: the edge table is loaded on the first query after construction or
\* after clear_graph_cache, whole and as it is at that moment; while the graph
\* stays loaded no step changes it, a commit of the graph builder included,
\* and every query is answered from the graph in memory
C15_LoadedOnce ==
    [][/\ (graph_loaded /\ graph_loaded') => graph' = graph
       /\ (~graph_loaded /\ graph_loaded') =>
              /\ request'.op = "find_best_route"
              /\ graph' = load_graph_from_db(station_graph)
       /\ (request = Idle /\ request'.op = "find_best_route") =>
              /\ graph_loaded'
              /\ response' = find_best_route(graph', redis, request'.cache_ok,
                                             request'.from_stop_id, request'.to_stop_id,
                                             request'.max_transfers)
       /\ (graph_loaded /\ ~graph_loaded') => (request = Idle /\ request' = Idle)
      ]_vars

\* a query answered from the snapshot after the builder committed another
\* edge set, with an answer the committed table would not give
C15_Witness ==
    /\ IsQuery
    /\ graph_loaded
    /\ graph # load_graph_from_db(station_graph)
    /\ response # find_best_route(load_graph_from_db(station_graph), redis,
                                  request.cache_ok, request.from_stop_id,
                                  request.to_stop_id, request.max_transfers)

(***************************************************************************)
(* C16                                                                     *)
(***************************************************************************)
IsRead == request.op = "get_arrivals"

\* a step that is a poll cycle whose puts succeed
CycleStep == poller.pc = "fetching" /\ poller'.pc = "sleeping" /\ poller'.cache_ok

\* the (key, list) pairs the cycle of this step puts
PutsOfStep == IF CycleStep THEN Range(fetch_all_feeds(poller'.feeds, <<>>)) ELSE {}

\* C16: a put makes get return exactly the list it was given, whatever the
\* key held before; an entry that is not put again is returned unchanged
\* while less than the TTL has passed since its put and is absent from then
\* on; a key never put is absent; get returns the stored list whole
C16_GetReturnsLastPut ==
    [][/\ \A p \in PutsOfStep :
              get_arrivals(redis', TRUE, p.key[1], p.key[2])
                  = [present |-> TRUE, arrivals |-> p.arrivals]
       /\ \A k \in DOMAIN redis \ {p.key : p \in PutsOfStep} :
              IF now' - redis[k].cached_at < RedisTtlSeconds
              THEN k \in DOMAIN redis' /\ redis'[k] = redis[k]
              ELSE get_arrivals(redis', TRUE, k[1], k[2]) = NoArrivals
       /\ \A k \in DOMAIN redis' \ DOMAIN redis : k \in {p.key : p \in PutsOfStep}
       /\ (request = Idle /\ request'.op = "get_arrivals") =>
              response' =
                  (IF <<request'.stop_id, request'.direction>> \in DOMAIN redis
                   THEN [present |-> TRUE,
                         arrivals |-> redis[<<request'.stop_id, request'.direction>>].arrivals]
                   ELSE NoArrivals)
      ]_vars

\* a read that returns the list put by a later cycle than the first, some
\* time after that put
C16_Witness ==
    /\ IsRead
    /\ response.present
    /\ redis[<<request.stop_id, request.direction>>].as_of_ts > 0
    /\ now > redis[<<request.stop_id, request.direction>>].cached_at

(***************************************************************************)
(* C17                                                                     *)
(***************************************************************************)
\* a poll cycle has completed with its puts accepted, and the loop has not
\* yet started the next one
CycleDone == poller.pc = "sleeping" /\ poller.cache_ok

\* C17: after a poll cycle started at T0 has completed, every readable
\* entry was written by that cycle (as_of_ts = T0); no entry of an earlier
\* cycle can still be read
C17_NoStaleEntryAfterCycle ==
    CycleDone => \A k \in DOMAIN redis : redis[k].as_of_ts = poller.start_time

(***************************************************************************)
(* C18                                                                     *)
(***************************************************************************)
\* the stop_time_updates of the feeds that were fetched and decoded, in the
\* order of the feed URLs
RECURSIVE DecodedUpdates(_)
DecodedUpdates(feeds) ==
    IF feeds = <<>> THEN <<>>
    ELSE (IF Head(feeds).ok THEN Head(feeds).updates ELSE <<>>)
         \o DecodedUpdates(Tail(feeds))

\* the updates among them that the poller emits as predictions
EmittedUpdates(feeds) ==
    SelectSeq(DecodedUpdates(feeds),
              LAMBDA u : /\ _infer_direction_from_stop_id(u.stop_id) # NoDirection
                         /\ u.eta_seconds >= 0
                         /\ u.eta_seconds <= MaxEtaSeconds)

KeyOf(u) == <<_clean_stop_id(u.stop_id), _infer_direction_from_stop_id(u.stop_id)>>

\* the predictions emitted for a key by all decoded feeds together
EmittedFor(feeds, k) ==
    LET us == SelectSeq(EmittedUpdates(feeds), LAMBDA u : KeyOf(u) = k)
    IN  [i \in 1..Len(us) |-> Arrival(us[i].route_id, us[i].eta_seconds)]

\* C18: after a cycle started at T0 has completed, every key for which the
\* cycle emitted a prediction holds an entry with as_of_ts = T0 and exactly
\* the predictions emitted for the key by all decoded feeds, those of
\* different feeds combined
C18_EntryOfCycle ==
    CycleDone =>
        \A k \in {KeyOf(u) : u \in Range(EmittedUpdates(poller.feeds))} :
            /\ k \in DOMAIN redis
            /\ redis[k].as_of_ts = poller.start_time
            /\ redis[k].arrivals = EmittedFor(poller.feeds, k)

\* a cycle whose fetches took time and whose two feeds both emitted a
\* prediction for the same key
C18_Witness ==
    /\ CycleDone
    /\ \E k \in DOMAIN redis :
          /\ Len(redis[k].arrivals) = 2
          /\ redis[k].as_of_ts = poller.start_time
          /\ redis[k].cached_at > redis[k].as_of_ts
          /\ \A i \in 1..2 : poller.feeds[i].ok /\ Len(poller.feeds[i].updates) = 1

(***************************************************************************)
(* C19                                                                     *)
(***************************************************************************)
SomeFeedFailed(feeds) == \E i \in 1..Len(feeds) : ~feeds[i].ok

\* C19: a cycle in which some feeds fail still runs to its end: the keys of
\* the predictions of the decoded feeds are put in that cycle with exactly
\* those predictions, no other key is written, and the feed timestamp is set
C19_FailedFeedsSkipped ==
    [][(CycleStep /\ SomeFeedFailed(poller'.feeds)) =>
          /\ \A k \in {KeyOf(u) : u \in Range(EmittedUpdates(poller'.feeds))} :
                /\ k \in DOMAIN redis'
                /\ redis'[k] = CacheEntry(EmittedFor(poller'.feeds, k),
                                          poller'.start_time, now')
          /\ \A k \in DOMAIN redis' \
                    {KeyOf(u) : u \in Range(EmittedUpdates(poller'.feeds))} :
                k \in DOMAIN redis /\ redis'[k] = redis[k]
          /\ feed_last_update' = [present |-> TRUE, timestamp |-> poller'.start_time]
      ]_vars

\* a cycle whose first feed failed after decoding an update and whose second
\* feed was decoded: the cache holds the prediction of the second feed only
C19_Witness ==
    /\ CycleDone
    /\ ~poller.feeds[1].ok
    /\ poller.feeds[1].updates # <<>>
    /\ poller.feeds[2].ok
    /\ DOMAIN redis = {KeyOf(u) : u \in Range(EmittedUpdates(poller.feeds))}
    /\ DOMAIN redis # {}
    /\ KeyOf(poller.feeds[1].updates[1]) \notin DOMAIN redis
    /\ \A k \in DOMAIN redis : redis[k].as_of_ts = poller.start_time

(***************************************************************************)
(* C20                                                                     *)
(***************************************************************************)
\* the decoded updates of a cycle that are to be consumed: the stop_id ends
\* in N, S, E or W and the eta is within range
ConsumedUpdates(feeds) ==
    SelectSeq(DecodedUpdates(feeds),
              LAMBDA u : /\ EndsWithDirection(u.stop_id)
                         /\ u.eta_seconds >= 0
                         /\ u.eta_seconds <= MaxEtaSeconds)

\* (base_stop_id, direction) of an update: the stop_id without its last
\* character, and that character
SuffixKey(u) == <<SubSeq(u.stop_id, 1, Len(u.stop_id) - 1), u.stop_id[Len(u.stop_id)]>>

\* C20: after a cycle, every decoded update whose stop_id ends in N, S, E
\* or W has its prediction in the entry of (stop_id without the last
\* character, last character), and the entries put by the cycle hold the
\* predictions of those updates only
C20_DirectionFromSuffix ==
    CycleDone =>
        /\ \A u \in Range(ConsumedUpdates(poller.feeds)) :
              /\ SuffixKey(u) \in DOMAIN redis
              /\ redis[SuffixKey(u)].as_of_ts = poller.start_time
              /\ Arrival(u.route_id, u.eta_seconds)
                    \in Range(redis[SuffixKey(u)].arrivals)
        /\ \A k \in DOMAIN redis :
              (redis[k].as_of_ts = poller.start_time /\ redis[k].cached_at = now) =>
                  \A a \in Range(redis[k].arrivals) :
                      \E u \in Range(ConsumedUpdates(poller.feeds)) :
                          SuffixKey(u) = k /\ a = Arrival(u.route_id, u.eta_seconds)

(***************************************************************************)
(* C21                                                                     *)
(***************************************************************************)
\* the entry of a key as the cycle that has just completed wrote it
WrittenByCycle(k) ==
    /\ k \in DOMAIN redis
    /\ redis[k].as_of_ts = poller.start_time
    /\ redis[k].cached_at = now

\* C21: every prediction in the cache has 0 <= eta_s <= 3600, and of the
\* decoded updates of a completed cycle whose stop_id gives a direction,
\* those with an eta from 0 to 3600 (both included) are in the entry the
\* cycle wrote for their key and those with an eta of -1 or 3601 are not
C21_EtaWithinBounds ==
    /\ \A k \in DOMAIN redis : \A a \in Range(redis[k].arrivals) :
          a.eta_s >= 0 /\ a.eta_s <= 3600
    /\ CycleDone =>
          \A u \in Range(DecodedUpdates(poller.feeds)) :
              _infer_direction_from_stop_id(u.stop_id) # NoDirection =>
                  ((u.eta_seconds >= 0 /\ u.eta_seconds <= 3600)
                      <=> /\ WrittenByCycle(KeyOf(u))
                          /\ Arrival(u.route_id, u.eta_seconds)
                                \in Range(redis[KeyOf(u)].arrivals))

\* a cycle that decoded updates with the etas -1, 0, 3600 and 3601 for one
\* key and wrote the entry of that key with the etas 0 and 3600
C21_Witness ==
    /\ CycleDone
    /\ {-1, 0, 3600, 3601} \subseteq
          {u.eta_seconds : u \in {v \in Range(DecodedUpdates(poller.feeds)) :
                                     KeyOf(v) = <<AN, "N">>}}
    /\ WrittenByCycle(<<AN, "N">>)
    /\ {a.eta_s : a \in Range(redis[<<AN, "N">>].arrivals)} = {0, 3600}

(***************************************************************************)
(* C22                                                                     *)
(***************************************************************************)
\* a step in which the wait that follows a poll cycle ends
WaitEnds == poller.pc = "sleeping" /\ poller'.pc = "ready"

\* how long the cycle that has just completed took
CycleSeconds == now - poller.start_time

\* C22: a cycle that took longer than the poll interval is followed by no
\* wait (the next cycle starts at the time the cycle finished); a cycle
\* that took less is followed by a wait
C22_NoSleepAfterOverrun ==
    [][WaitEnds =>
          /\ CycleSeconds > PollIntervalSeconds => now' = now
          /\ CycleSeconds < PollIntervalSeconds => now' > now
      ]_vars

(***************************************************************************)
(* C23                                                                     *)
(***************************************************************************)
\* gtfs_rt.py line 262: "await asyncio.sleep(30)"
BackoffSeconds == 30

\* the cycle that has just completed failed: the write to Redis raised, or
\* every fetch raised
CycleFailed ==
    \/ ~poller.cache_ok
    \/ \A i \in 1..Len(poller.feeds) : ~poller.feeds[i].ok

\* C23: the wait that follows a failed cycle is the back-off interval of 30
\* seconds, not the poll interval, and the loop goes on to the next cycle
C23_BackoffAfterFailedCycle ==
    [][(WaitEnds /\ CycleFailed) =>
          /\ now' - now = BackoffSeconds
          /\ poller'.is_running
      ]_vars

(***************************************************************************)
(* C24                                                                     *)
(***************************************************************************)
\* stop() has been called and start() has not been called since
Stopped == ~poller.is_running /\ poller.pc # "none"

\* C24: from the call of stop() on, whatever the loop was suspended in, no
\* step writes to the cache or removes what the interrupted cycle or the
\* cycles before it wrote (the fetches in flight produce no put); the loop
\* ends; and stop() returns only once it has ended
C24_StopEndsLoop ==
    /\ [][Stopped => (redis' = redis /\ feed_last_update' = feed_last_update)]_vars
    /\ [](Stopped /\ ~poller.stopping => poller.pc = "done")
    /\ (poller.stopping ~> (poller.pc = "done" /\ ~poller.stopping))

\* stop() has returned after it interrupted the fetches of a second cycle:
\* the entries the first cycle wrote are still in the cache
C24_Witness ==
    /\ Stopped
    /\ ~poller.stopping
    /\ poller.pc = "done"
    /\ redis # << >>
    /\ \A k \in DOMAIN redis : redis[k].as_of_ts < poller.start_time
    /\ feed_last_update.timestamp < poller.start_time

\* stop() has returned after it interrupted the sleep that followed a
\* cycle: the entries that cycle wrote are still in the cache
C24_WitnessSleeping ==
    /\ Stopped
    /\ ~poller.stopping
    /\ poller.pc = "done"
    /\ redis # << >>
    /\ \A k \in DOMAIN redis : redis[k].as_of_ts = poller.start_time

(***************************************************************************)
(* C25                                                                     *)
(***************************************************************************)
IsBuild == request.op = "build_graph"

\* the platform stops of a Static Store: the stops with a direction suffix
PlatformStops(store) == {s \in Range(store.stops) : EndsWithDirection(s)}

Nodes(edges) ==
    {edges[i].from_stop_id : i \in 1..Len(edges)}
        \cup {edges[i].to_stop_id : i \in 1..Len(edges)}

\* C25: every from_stop_id and to_stop_id of the edges a build produces,
\* and every node of the graph loaded from the table it leaves, is a
\* platform stop of the Static Store
C25_NodesArePlatformStops ==
    IsBuild =>
        /\ Nodes(response.edges) \subseteq PlatformStops(static_store)
        /\ LET g == load_graph_from_db(station_graph)
           IN  \A s \in DOMAIN g :
                   Nodes(g[s]) \subseteq PlatformStops(static_store)

(***************************************************************************)
(* C26                                                                     *)
(***************************************************************************)
\* a step that is a call of build_graph
BuildStep == request = Idle /\ request'.op = "build_graph"

\* the module-level builder has run on the Static Store and the table holds
\* the edges that run saved
TableOfBuilder == graph_builder # << >> /\ station_graph = GraphItems(graph_builder)

\* C26: a run of the compiler that follows a run on the same Static Store
\* contents, by a new builder or by the same one, and meets no database
\* error of its own, completes and leaves the table with the edge set the
\* first run left
C26_SecondRunSameEdgeSet ==
    [][(BuildStep /\ TableOfBuilder /\ ~request'.db_error) =>
          /\ response'.kind = "built"
          /\ Range(station_graph') = Range(station_graph)
      ]_vars

(***************************************************************************)
(* C27                                                                     *)
(***************************************************************************)
\* C27: the edge set a run of build_graph by a new builder emits never
\* holds two edges with the same (from_stop_id, to_stop_id, route_id)
C27_EdgeKeysUnique ==
    (IsBuild /\ request.fresh) => ~HasDuplicateKey(response.edges)

(***************************************************************************)
(* C28                                                                     *)
(***************************************************************************)
\* C28: a call of build_graph that returns leaves in the table exactly the
\* edge set it computed, and a call that fails, before or during the
\* inserts, leaves in the table exactly the rows it held before the call
C28_AllOrNothing ==
    [][BuildStep =>
          IF response'.kind = "built"
          THEN station_graph' = response'.edges
          ELSE station_graph' = station_graph
      ]_vars

\* a build over a table that held edges failed during the inserts
C28_Witness ==
    /\ IsBuild
    /\ response.kind = "raised"
    /\ ~request.db_error
    /\ response.edges # << >>
    /\ station_graph = PreviousTable

\* a build replaced a table that held edges
C28_WitnessReplaced ==
    /\ IsBuild
    /\ response.kind = "built"
    /\ station_graph # << >>
    /\ Range(station_graph) \cap Range(PreviousTable) = {}

Least(S) == CHOOSE x \in S : \A y \in S : x <= y

\* the least cost of reaching each (node, transfer_count) state with at
\* most m transfer edges over the planner's graph, as the fixpoint of
\* relaxing every edge from every state reached so far
RECURSIVE LeastCosts(_, _)
LeastCosts(d, m) ==
    LET moves == UNION {{<<s, c>> : c \in Range(Connections(graph, s[1]))} : s \in DOMAIN d}
        cands == {[state |-> <<x[2].to_stop_id,
                               x[1][2] + (IF x[2].is_transfer THEN 1 ELSE 0)>>,
                   cost |-> d[x[1]] + x[2].travel_time + x[2].transfer_penalty] :
                     x \in moves}
        bounded == {c \in cands : c.state[2] <= m}
        states == DOMAIN d \cup {c.state : c \in bounded}
        nd == [s \in states |->
                  Least((IF s \in DOMAIN d THEN {d[s]} ELSE {})
                        \cup {c.cost : c \in {b \in bounded : b.state = s}})]
    IN  IF nd = d THEN d ELSE LeastCosts(nd, m)

\* the least cost of a path from start to end with at most m transfer edges
MinimumCost(start, end, m) ==
    LET d == LeastCosts([s \in {<<start, 0>>} |-> 0], m)
    IN  Least({d[s] : s \in {x \in DOMAIN d : x[1] = end}})

\* p is a sequence of edges of the planner's graph that leads from start to
\* end, each edge leaving the node the edge before it enters
ConnectedPath(p, start, end) ==
    /\ p = <<>> => start = end
    /\ p # <<>> => p[1].from_stop = start /\ p[Len(p)].to_stop = end
    /\ \A i \in 1..(Len(p) - 1) : p[i + 1].from_stop = p[i].to_stop
    /\ \A i \in 1..Len(p) :
          \E c \in Range(Connections(graph, p[i].from_stop)) :
              /\ c.to_stop_id = p[i].to_stop
              /\ c.route_id = p[i].route_id
              /\ c.travel_time = p[i].travel_time
              /\ c.is_transfer = p[i].is_transfer

C30_WitnessCheaper ==
    /\ IsSearch
    /\ path.found
    /\ \E c \in Range(Connections(graph, request.from_stop_id)) :
          /\ c.to_stop_id = request.to_stop_id
          /\ (c.is_transfer => request.max_transfers > 0)
          /\ c.travel_time + c.transfer_penalty > PathCost(path.path)

(***************************************************************************)
(* C31                                                                     *)
(***************************************************************************)
\* the predicted time of a stop_time_update: arrival.time when it has an
\* arrival, else departure.time
PredictedEpoch(u) == IF u.arrival.some THEN u.arrival ELSE u.departure

\* the stop_time_updates of the feeds that succeeded
UpdatesOf(timed_feeds) ==
    UNION {Range(timed_feeds[i].updates) :
             i \in {j \in 1..Len(timed_feeds) : timed_feeds[j].ok}}

\* C31: every prediction a poll cycle writes has eta_s = predicted_epoch - T0
\* for a stop_time_update of the cycle with that stop, direction and route,
\* T0 being the start time of the cycle, which is stored as as_of_ts, and
\* predicted_epoch its arrival time or, without one, its departure time
C31_EtaFromCycleStart ==
    [][\A timed_feeds \in TimedCycles, took \in FetchSeconds :
          UpdateCacheOfFeeds(timed_feeds, took, TRUE) =>
              \A k \in {x \in DOMAIN redis' : redis'[x].as_of_ts = poller.start_time} :
                  \A i \in 1..Len(redis'[k].arrivals) :
                      \E u \in UpdatesOf(timed_feeds) :
                          /\ _clean_stop_id(u.stop_id) = k[1]
                          /\ _infer_direction_from_stop_id(u.stop_id) = k[2]
                          /\ u.route_id = redis'[k].arrivals[i].route_id
                          /\ PredictedEpoch(u).some
                          /\ redis'[k].arrivals[i].eta_s
                                = PredictedEpoch(u).value - poller.start_time
      ]_vars

RouteOfTrip(store, trip_id) ==
    (CHOOSE t \in Range(store.trips) : t.trip_id = trip_id).route_id

\* the pairs of stop_times of one trip that are adjacent when the
\* stop_times of the trip are sorted by stop_sequence
AdjacentPairs(store) ==
    {x \in Range(store.stop_times) \X Range(store.stop_times) :
        /\ x[1].trip_id = x[2].trip_id
        /\ x[1].stop_sequence < x[2].stop_sequence
        /\ ~\E st \in Range(store.stop_times) :
              /\ st.trip_id = x[1].trip_id
              /\ x[1].stop_sequence < st.stop_sequence
              /\ st.stop_sequence < x[2].stop_sequence}

\* the non-transfer edges of an edge set
RideEdges(edges) == {e \in Range(edges) : ~e.is_transfer}

\* C33: for every pair of stop_times of a trip that are adjacent in the
\* order of stop_sequence, also when the stop_sequence values are not
\* consecutive integers, and whose departure and arrival times are given,
\* the compiler emits an edge from the first stop to the second with the
\* route of the trip
C33_AdjacentPairsEmitted ==
    (IsBuild /\ request.fresh) =>
        \A x \in AdjacentPairs(static_store) :
            (~x[1].departure_time.null /\ ~x[2].arrival_time.null) =>
                \E e \in RideEdges(response.edges) :
                    /\ e.from_stop_id = x[1].stop_id
                    /\ e.to_stop_id = x[2].stop_id
                    /\ e.route_id = RouteOfTrip(static_store, x[1].trip_id)

(***************************************************************************)
(* C34                                                                     *)
(***************************************************************************)
\* a time column that is NULL, empty, or not of the form H:M:S
MissingOrUnparsable(time_str) == time_str.null \/ Len(time_str.parts) < 3

\* H * 3600 + M * 60 + S
SecondsOf(time_str) ==
    time_str.parts[1] * 3600 + time_str.parts[2] * 60 + time_str.parts[3]

\* the pairs of stop_times of one trip whose stop_sequence differ by one
ConsecutivePairs(store) ==
    {x \in Range(store.stop_times) \X Range(store.stop_times) :
        /\ x[1].trip_id = x[2].trip_id
        /\ x[2].stop_sequence = x[1].stop_sequence + 1}

\* (from, to, route) of a pair of stop_times
TripleOf(store, x) == <<x[1].stop_id, x[2].stop_id, RouteOfTrip(store, x[1].trip_id)>>

\* C34: the edge of a (from, to, route) that has a single candidate has the
\* weight max(60, arrival at the next stop - departure at this stop), times
\* being H * 3600 + M * 60 + S, and 120 when one of the two times is NULL,
\* empty or unparsable; in that case the edge is still emitted
C34_CandidateWeight ==
    (IsBuild /\ request.fresh) =>
        \A x \in ConsecutivePairs(static_store) :
            (\A y \in ConsecutivePairs(static_store) :
                 TripleOf(static_store, y) = TripleOf(static_store, x) => y = x) =>
                \E e \in RideEdges(response.edges) :
                    /\ <<e.from_stop_id, e.to_stop_id, e.route_id>> = TripleOf(static_store, x)
                    /\ e.travel_time =
                          IF \/ MissingOrUnparsable(x[1].departure_time)
                             \/ MissingOrUnparsable(x[2].arrival_time)
                          THEN DefaultTravelSeconds
                          ELSE IF SecondsOf(x[2].arrival_time) - SecondsOf(x[1].departure_time)
                                     > MinTravelSeconds
                          THEN SecondsOf(x[2].arrival_time) - SecondsOf(x[1].departure_time)
                          ELSE MinTravelSeconds

(***************************************************************************)
(* C35                                                                     *)
(***************************************************************************)
\* the candidates of a (from, to, route): one per pair of stop_times of a
\* trip of the route whose stop_sequence differ by one and whose times are
\* given
Candidates(store, triple) ==
    {x \in ConsecutivePairs(store) :
        /\ TripleOf(store, x) = triple
        /\ ~x[1].departure_time.null
        /\ ~x[2].arrival_time.null}

RECURSIVE SumWeights(_)
SumWeights(candidates) ==
    IF candidates = {} THEN 0
    ELSE LET x == CHOOSE c \in candidates : TRUE
         IN  TravelSeconds(x[1].departure_time, x[2].arrival_time)
                + SumWeights(candidates \ {x})

\* C35: the travel_time of a non-transfer edge is the mean, rounded down, of
\* the weights of all candidates of its (from, to, route), one candidate
\* per trip and pair, trips with the same times counting each
C35_MeanOverCandidates ==
    (IsBuild /\ request.fresh) =>
        \A e \in RideEdges(response.edges) :
            LET candidates ==
                    Candidates(static_store, <<e.from_stop_id, e.to_stop_id, e.route_id>>)
            IN  /\ candidates # {}
                /\ e.travel_time = SumWeights(candidates) \div Cardinality(candidates)

(***************************************************************************)
(* C36                                                                     *)
(***************************************************************************)
\* candidates(s): s itself when it ends in a direction marker, else s with
\* each of N, S, E, W appended
CandidatesOfStop(stop_id) ==
    IF EndsWithDirection(stop_id) THEN {stop_id}
    ELSE {Append(stop_id, Directions[i]) : i \in 1..Len(Directions)}

\* min_transfer_time when present, else 180 for transfer_type 0 or 1, else 300
PenaltyOf(transfer) ==
    IF transfer.min_transfer_time.some THEN transfer.min_transfer_time.value
    ELSE IF transfer.transfer_type \in {0, 1} THEN TransferPenaltyMin
    ELSE TransferPenaltyMax

\* the declared transfers that are possible and join two different stops
Declared(store) ==
    {t \in Range(store.transfers) : t.transfer_type # 3 /\ t.from_stop_id # t.to_stop_id}

\* C36: for every declared transfer that is possible and joins two different
\* stops, the compiler emits a TRANSFER edge for every pair of
\* candidates(from) x candidates(to), with the penalty min_transfer_time
\* when that is present, 0 included, else 180 for transfer_type 0 or 1, else
\* 300; every TRANSFER edge comes from such a transfer
C36_TransferEdges ==
    (IsBuild /\ request.fresh) =>
        /\ \A t \in Declared(static_store) :
              \A f \in CandidatesOfStop(t.from_stop_id), d \in CandidatesOfStop(t.to_stop_id) :
                  TransferEdge(f, d, "TRANSFER", PenaltyOf(t)) \in Range(response.edges)
        /\ \A e \in Range(response.edges) :
              e.route_id = "TRANSFER" =>
                  \E t \in Declared(static_store) :
                      /\ e.from_stop_id \in CandidatesOfStop(t.from_stop_id)
                      /\ e.to_stop_id \in CandidatesOfStop(t.to_stop_id)

(***************************************************************************)
(* C37                                                                     *)
(***************************************************************************)
\* the platforms from which a consecutive-stop edge of the edge set starts
RideSources(edges) == {e.from_stop_id : e \in RideEdges(edges)}

\* the ordered pairs of distinct sibling platforms of the stations of the
\* stops table that are both in the given set of platforms
SiblingPairs(store, platforms) ==
    {x \in platforms \X platforms :
        /\ x[1] # x[2]
        /\ \E base_id \in Range(store.stops) :
              /\ x[1] \in {Append(base_id, Directions[i]) : i \in 1..Len(Directions)}
              /\ x[2] \in {Append(base_id, Directions[i]) : i \in 1..Len(Directions)}}

\* C37: the PLATFORM_TRANSFER edges (travel 0, penalty 300) are exactly one
\* for every ordered pair of distinct sibling platforms from both of which
\* a consecutive-stop edge starts; a platform that is the source of
\* declared-transfer edges only gets none
C37_PlatformTransfers ==
    (IsBuild /\ request.fresh) =>
        /\ {<<e.from_stop_id, e.to_stop_id>> :
                e \in {x \in Range(response.edges) : x.route_id = "PLATFORM_TRANSFER"}}
              = SiblingPairs(static_store, RideSources(response.edges))
        /\ \A e \in Range(response.edges) :
              e.route_id = "PLATFORM_TRANSFER" =>
                  e = TransferEdge(e.from_stop_id, e.to_stop_id, "PLATFORM_TRANSFER",
                                   PlatformTransferPenalty)

(***************************************************************************)
(* C38                                                                     *)
(***************************************************************************)
\* a task that can still run an iteration of the poll loop: it has not
\* ended and no cancellation is pending for it
LiveTask(t) == t.pc \in {"ready", "fetching", "sleeping"} /\ ~t.must_cancel

LiveLoops ==
    (IF LiveTask(poller) THEN 1 ELSE 0)
    + Cardinality({i \in 1..Len(poller.superseded) : LiveTask(poller.superseded[i])})

\* C38: under every interleaving of start() and stop() at most one poll
\* loop can run; start() on a running poller creates no task, stop() on a
\* stopped poller cancels nothing, and the cache is written only by the
\* cycle step of that one loop, so the puts of two cycles never interleave
C38_OneLoop ==
    /\ [](LiveLoops <= 1)
    /\ [][/\ (poller.is_running /\ poller'.is_running) =>
                /\ Len(poller'.superseded) <= Len(poller.superseded)
                /\ poller'.pc = "ready" => poller.pc \in {"ready", "sleeping"}
          /\ (~poller.is_running /\ ~poller'.is_running) =>
                (poller'.must_cancel => poller.must_cancel)
          /\ (redis' # Unexpired(redis, now') \/ feed_last_update' # feed_last_update) =>
                /\ LiveTask(poller)
                /\ poller.pc = "fetching"
                /\ poller'.pc = "sleeping"
                /\ LiveLoops = 1
         ]_vars

\* start() was called while a stop() awaited the task it had cancelled: the
\* new task is about to run and the cancelled one has not ended yet
C38_Witness ==
    /\ poller.is_running
    /\ poller.pc = "ready"
    /\ Len(poller.superseded) = 1
    /\ poller.superseded[1].must_cancel
    /\ poller.superseded[1].pc = "fetching"

(***************************************************************************)
(* C39: termination of _dijkstra                                           *)
(***************************************************************************)
IsFollowedSearch == request.op = "_dijkstra by steps"

\* the (node, transfer_count) states the followed call holds anywhere
SearchStates ==
    {<<e.stop, e.transfers>> : e \in search.pq}
        \cup search.visited \cup DOMAIN search.best_costs

\* C39: every _dijkstra call returns, whatever the graph (cycles, transfers
\* from a stop to itself and edges of zero cost included) and whatever
\* max_transfers >= 0: no (node, transfer_count) state passes the visited
\* test twice, no state the call holds has a transfer_count above
\* max_transfers, and the value returned is the one of the whole loop
C39_SearchTerminates ==
    /\ [](IsFollowedSearch =>
            /\ \A i, j \in 1..Len(search.expanded) :
                  search.expanded[i] = search.expanded[j] => i = j
            /\ \A state \in SearchStates : state[2] <= request.max_transfers
            /\ ~search.running =>
                  path = _dijkstra(graph, request.from_stop_id, request.to_stop_id,
                                   request.max_transfers))
    /\ (search.running ~> ~search.running)

\* a call has returned None after it went round the cycle back to its start
\* over the ride of zero seconds and took the transfer from BN to BN
C39_Witness ==
    /\ IsFollowedSearch
    /\ ~search.running
    /\ ~path.found
    /\ <<request.from_stop_id, 0>> \in DOMAIN search.best_costs
    /\ \E i \in 1..Len(station_graph) :
          /\ station_graph[i].travel_time + station_graph[i].transfer_penalty = 0
          /\ ~station_graph[i].is_transfer
    /\ <<BN, 1>> \in search.visited

====
